---------------------------- MODULE Spec2Model ----------------------------
(***************************************************************************)
(* A model of the chess rules engine and move codec of                     *)
(* chess_compress_urlsafe: Board, the reachability resolver                *)
(* (is_reachable_by.rs), the check detector (is_check.rs), the ambiguity   *)
(* classifier (ambiguous_origin.rs), GameState::do_move and                *)
(* from_manual_config (game_state.rs), and compress / decompress.          *)
(*                                                                         *)
(* A Position is its board index 0..63 (index = row * 8 + column), a       *)
(* Figure a record [fig_type, color], an Option::None a value named No...  *)
(***************************************************************************)
EXTENDS Integers, Sequences, FiniteSets, TLC

(***************************************************************************)
(* base/color.rs                                                           *)
(***************************************************************************)
White == "White"
Black == "Black"
Colors == {White, Black}

toggle(color) == IF color = White THEN Black ELSE White

get_ground_row(color) == IF color = Black THEN 7 ELSE 0

(***************************************************************************)
(* base/position.rs and base/direction.rs (not part of the listed source)  *)
(***************************************************************************)
Positions == 0..63
NoPos == 0 - 1

Col(pos) == pos % 8
Row(pos) == pos \div 8
OnBoard(c, r) == c >= 0 /\ c <= 7 /\ r >= 0 /\ r <= 7

new_unchecked(column, row) == row * 8 + column

Abs(x) == IF x < 0 THEN 0 - x ELSE x

Up        == <<0, 1>>
Down      == <<0, 0 - 1>>
Left      == <<0 - 1, 0>>
Right     == <<1, 0>>
UpLeft    == <<0 - 1, 1>>
UpRight   == <<1, 1>>
DownLeft  == <<0 - 1, 0 - 1>>
DownRight == <<1, 0 - 1>>

STRAIGHT_DIRECTIONS == <<Up, Right, Down, Left>>
DIAGONAL_DIRECTIONS == <<UpRight, DownRight, DownLeft, UpLeft>>

reverse(direction) == <<0 - direction[1], 0 - direction[2]>>

\* Position::step: the neighbour in a direction, None when off the board
step(pos, direction) ==
    IF pos # NoPos /\ OnBoard(Col(pos) + direction[1], Row(pos) + direction[2])
    THEN new_unchecked(Col(pos) + direction[1], Row(pos) + direction[2])
    ELSE NoPos

\* Position::step_unchecked: the same arithmetic without the bounds check
step_unchecked(pos, direction) ==
    new_unchecked(Col(pos) + direction[1], Row(pos) + direction[2])

get_row_distance(a, b) == Abs(Row(a) - Row(b))

\* Position::touches: a king's step apart
touches(a, b) ==
    /\ a # b
    /\ Abs(Col(a) - Col(b)) <= 1
    /\ Abs(Row(a) - Row(b)) <= 1

KnightOffsets ==
    << <<1, 2>>, <<2, 1>>, <<2, 0 - 1>>, <<1, 0 - 2>>,
       <<0 - 1, 0 - 2>>, <<0 - 2, 0 - 1>>, <<0 - 2, 1>>, <<0 - 1, 2>> >>

(***************************************************************************)
(* figure/figure.rs                                                        *)
(***************************************************************************)
Pawn   == "Pawn"
Rook   == "Rook"
Knight == "Knight"
Bishop == "Bishop"
Queen  == "Queen"
King   == "King"
FigureTypes == {Pawn, Rook, Knight, Bishop, Queen, King}

Figure(fig_type, color) == [fig_type |-> fig_type, color |-> color]
NoFigure == [fig_type |-> "None", color |-> "None"]

(***************************************************************************)
(* game/board.rs                                                           *)
(***************************************************************************)
BackRank == <<Rook, Knight, Bishop, Queen, King, Bishop, Knight, Rook>>

Board_classic ==
    [state |-> [p \in Positions |->
                    CASE Row(p) = 0 -> Figure(BackRank[Col(p) + 1], White)
                      [] Row(p) = 1 -> Figure(Pawn, White)
                      [] Row(p) = 6 -> Figure(Pawn, Black)
                      [] Row(p) = 7 -> Figure(BackRank[Col(p) + 1], Black)
                      [] OTHER -> NoFigure],
     number_of_figures |-> 32]

Board_empty ==
    [state |-> [p \in Positions |-> NoFigure], number_of_figures |-> 0]

get_figure(board, pos) == board.state[pos]

\* the board after set_figure; its return value is CaptureInfo of the board before
set_figure(board, pos, figure) ==
    [state |-> [board.state EXCEPT ![pos] = figure],
     number_of_figures |->
        IF board.state[pos] # NoFigure THEN board.number_of_figures
        ELSE board.number_of_figures + 1]

\* CaptureInfoOption::get_captured_figure_type of set_figure's return value
CaptureInfo(board, pos) == board.state[pos].fig_type

\* clear_field that leaves the count alone
clear_field_keeps_count(board, pos) ==
    [state |-> [board.state EXCEPT ![pos] = NoFigure],
     number_of_figures |-> board.number_of_figures]

clear_field(board, pos) ==
    [state |-> [board.state EXCEPT ![pos] = NoFigure],
     number_of_figures |-> board.number_of_figures - 1]

\* the for loop of contains_sufficient_material_to_continue from an index on:
\* [returned, white_knight_nr, found_white_bishop, black_knight_nr,
\* found_black_bishop], returned where the loop returned true
RECURSIVE material_loop(_, _, _)
material_loop(board, state_index, acc) ==
    IF state_index > 63 \/ acc.returned THEN acc
    ELSE
    LET figure == board.state[state_index]
    IN  material_loop(board, state_index + 1,
            CASE figure.fig_type \in {Pawn, Rook, Queen} -> [acc EXCEPT !.returned = TRUE]
              [] figure = Figure(Knight, Black) ->
                    [acc EXCEPT !.black_knight_nr = acc.black_knight_nr + 1]
              [] figure = Figure(Knight, White) ->
                    [acc EXCEPT !.white_knight_nr = acc.white_knight_nr + 1]
              [] figure = Figure(Bishop, Black) ->
                    IF acc.found_black_bishop THEN [acc EXCEPT !.returned = TRUE]
                    ELSE [acc EXCEPT !.found_black_bishop = TRUE]
              [] figure = Figure(Bishop, White) ->
                    IF acc.found_white_bishop THEN [acc EXCEPT !.returned = TRUE]
                    ELSE [acc EXCEPT !.found_white_bishop = TRUE]
              [] OTHER -> acc)

\* what contains_sufficient_material_to_continue returns after the loop
material_after_loop(acc) ==
    \/ acc.returned
    \/ (acc.found_white_bishop /\ acc.white_knight_nr # 0)
    \/ (acc.found_black_bishop /\ acc.black_knight_nr # 0)
    \/ acc.white_knight_nr > 2
    \/ acc.black_knight_nr > 2

material_counted(board) ==
    material_after_loop(
        material_loop(board, 0,
            [returned |-> FALSE, white_knight_nr |-> 0, found_white_bishop |-> FALSE,
             black_knight_nr |-> 0, found_black_bishop |-> FALSE]))

\* contains_sufficient_material_to_continue that returns true from five figures on
contains_sufficient_material_to_continue_from_five(board) ==
    IF board.number_of_figures > 4 THEN TRUE ELSE material_counted(board)

contains_sufficient_material_to_continue(board) ==
    IF board.number_of_figures > 6 THEN TRUE ELSE material_counted(board)

is_empty(board, pos) == get_figure(board, pos) = NoFigure

contains_figure(board, pos, fig_type, color) ==
    board.state[pos] = Figure(fig_type, color)

contains_color(board, pos, color) ==
    board.state[pos] # NoFigure /\ board.state[pos].color = color


\* Position::reachable_knight_positions: the knight jumps from pos that stay on
\* the board and do not land on a figure of knight_color
reachable_knight_positions(pos, knight_color, board) ==
    LET jump(o) == IF OnBoard(Col(pos) + o[1], Row(pos) + o[2])
                   THEN new_unchecked(Col(pos) + o[1], Row(pos) + o[2])
                   ELSE NoPos
        all == [i \in 1..8 |-> jump(KnightOffsets[i])]
    IN  SelectSeq(all, LAMBDA p : p # NoPos /\ ~contains_color(board, p, knight_color))

(***************************************************************************)
(* figure/functions/is_reachable_by.rs                                     *)
(***************************************************************************)
NoFoundFigure == [figure_type |-> "None", position |-> NoPos]

RECURSIVE find_first_active_figure_on_line_from(_, _, _, _)
find_first_active_figure_on_line_from(start, direction, active_color, board) ==
    LET pos == step(start, direction)
    IN  IF pos = NoPos THEN NoFoundFigure
        ELSE IF get_figure(board, pos) # NoFigure
             THEN IF get_figure(board, pos).color = active_color
                  THEN [figure_type |-> get_figure(board, pos).fig_type, position |-> pos]
                  ELSE NoFoundFigure
             ELSE find_first_active_figure_on_line_from(pos, direction, active_color, board)

\* LineOrigin that passes over the king next to the target
LineOrigin_lines_only(target, direction, active_color, board, line_types) ==
    LET found_figure ==
            find_first_active_figure_on_line_from(target, direction, active_color, board)
    IN  IF found_figure = NoFoundFigure THEN <<>>
        ELSE IF found_figure.figure_type \in line_types
             THEN <<found_figure.position>>
        ELSE <<>>

\* one iteration of the for_each over a direction list: what it pushes
LineOrigin(target, direction, active_color, board, line_types) ==
    LET found_figure ==
            find_first_active_figure_on_line_from(target, direction, active_color, board)
    IN  IF found_figure = NoFoundFigure THEN <<>>
        ELSE IF found_figure.figure_type \in line_types
             THEN <<found_figure.position>>
        ELSE IF found_figure.figure_type = King /\ touches(found_figure.position, target)
             THEN <<found_figure.position>>
        ELSE <<>>

LineOrigins(target, directions, active_color, board, line_types) ==
    LineOrigin(target, directions[1], active_color, board, line_types)
    \o LineOrigin(target, directions[2], active_color, board, line_types)
    \o LineOrigin(target, directions[3], active_color, board, line_types)
    \o LineOrigin(target, directions[4], active_color, board, line_types)

KnightOrigins(target, active_color, board) ==
    SelectSeq(reachable_knight_positions(target, toggle(active_color), board),
              LAMBDA pos_from : get_figure(board, pos_from) = Figure(Knight, active_color))

\* contains_active_pawn that takes a pawn of either colour
contains_active_pawn_of_any_color(pos, active_color, board) ==
    /\ pos # NoPos
    /\ get_figure(board, pos).fig_type = Pawn

contains_active_pawn(pos, active_color, board) ==
    /\ pos # NoPos
    /\ get_figure(board, pos) = Figure(Pawn, active_color)

PawnOrigins(target, active_color, board, en_passant_intercept_pos) ==
    IF ~(\/ (active_color = White /\ Row(target) > 1)
         \/ (active_color = Black /\ Row(target) < 6))
    THEN <<>>
    ELSE
    LET target_pos_is_empty == is_empty(board, target)
        vertical_direction == IF active_color = White THEN Down ELSE Up
        single_step_straight_pos == step_unchecked(target, vertical_direction)
        target_row_eligible_for_double_step == IF active_color = White THEN 3 ELSE 4
        double_step_straight_pos ==
            step_unchecked(single_step_straight_pos, vertical_direction)
        attack_pawn_directions ==
            IF active_color = White THEN <<DownLeft, DownRight>> ELSE <<UpLeft, UpRight>>
        attack(i) ==
            IF contains_active_pawn(step(target, attack_pawn_directions[i]),
                                    active_color, board)
            THEN <<step(target, attack_pawn_directions[i])>> ELSE <<>>
        straight ==
            IF target_pos_is_empty
            THEN (IF contains_active_pawn(single_step_straight_pos, active_color, board)
                  THEN <<single_step_straight_pos>> ELSE <<>>)
                 \o
                 (IF /\ Row(target) = target_row_eligible_for_double_step
                     /\ is_empty(board, single_step_straight_pos)
                     /\ contains_active_pawn(double_step_straight_pos, active_color, board)
                  THEN <<double_step_straight_pos>> ELSE <<>>)
            ELSE <<>>
        diagonal ==
            IF ~target_pos_is_empty \/ target = en_passant_intercept_pos
            THEN attack(1) \o attack(2)
            ELSE <<>>
    IN  straight \o diagonal

\* inner_get_positions_to_reach_target_from whose second pass goes over the
\* straight directions once more
inner_get_positions_to_reach_target_from_straight_twice(target, active_color, board, en_passant_intercept_pos) ==
    LineOrigins(target, STRAIGHT_DIRECTIONS, active_color, board, {Rook, Queen})
    \o LineOrigins(target, STRAIGHT_DIRECTIONS, active_color, board, {Bishop, Queen})
    \o KnightOrigins(target, active_color, board)
    \o PawnOrigins(target, active_color, board, en_passant_intercept_pos)

inner_get_positions_to_reach_target_from(target, active_color, board, en_passant_intercept_pos) ==
    LineOrigins(target, STRAIGHT_DIRECTIONS, active_color, board, {Rook, Queen})
    \o LineOrigins(target, DIAGONAL_DIRECTIONS, active_color, board, {Bishop, Queen})
    \o KnightOrigins(target, active_color, board)
    \o PawnOrigins(target, active_color, board, en_passant_intercept_pos)

\* Result<Vec<Position>, ChessError>: [ok, err, origins]
get_positions_to_reach_target_from(target, game_state) ==
    IF /\ get_figure(game_state.board, target) # NoFigure
       /\ get_figure(game_state.board, target).color = game_state.turn_by
    THEN [ok |-> FALSE, err |-> "IllegalMove", origins |-> <<>>]
    ELSE [ok |-> TRUE, err |-> "None",
          origins |-> inner_get_positions_to_reach_target_from(
                          target, game_state.turn_by, game_state.board,
                          game_state.en_passant_intercept_pos)]

(***************************************************************************)
(* game/is_check.rs                                                        *)
(***************************************************************************)
\* the two panics at the top of is_check
is_check_panics(board, king_pos) ==
    get_figure(board, king_pos).fig_type # King

\* LineAttack that takes the first figure of the attacker for one that moves
\* along the line
LineAttack_first_of_any_kind(board, king_pos, directions, attacker_color, line_types) ==
    \E i \in 1..4 :
        find_first_active_figure_on_line_from(
            king_pos, directions[i], attacker_color, board) # NoFoundFigure

LineAttack(board, king_pos, directions, attacker_color, line_types) ==
    \E i \in 1..4 :
        LET attacker == find_first_active_figure_on_line_from(
                            king_pos, directions[i], attacker_color, board)
        IN  attacker # NoFoundFigure /\ attacker.figure_type \in line_types

\* is_check that looks along the lines only
is_check_lines_only(board, king_pos) ==
    LET attacker_color == toggle(get_figure(board, king_pos).color)
    IN  \/ LineAttack(board, king_pos, STRAIGHT_DIRECTIONS, attacker_color, {Queen, Rook})
        \/ LineAttack(board, king_pos, DIAGONAL_DIRECTIONS, attacker_color, {Queen, Bishop})

is_check(board, king_pos) ==
    LET attacker_color == toggle(get_figure(board, king_pos).color)
        knight_jumps == reachable_knight_positions(king_pos, toggle(attacker_color), board)
        attack_pawn_directions ==
            IF attacker_color = White THEN <<DownLeft, DownRight>> ELSE <<UpLeft, UpRight>>
    IN  \/ LineAttack(board, king_pos, STRAIGHT_DIRECTIONS, attacker_color, {Queen, Rook})
        \/ LineAttack(board, king_pos, DIAGONAL_DIRECTIONS, attacker_color, {Queen, Bishop})
        \/ \E i \in 1..Len(knight_jumps) :
               get_figure(board, knight_jumps[i]).fig_type = Knight
        \/ \E i \in 1..2 :
               LET pawn_pos == step(king_pos, attack_pawn_directions[i])
               IN  /\ pawn_pos # NoPos
                   /\ get_figure(board, pawn_pos) = Figure(Pawn, attacker_color)

(***************************************************************************)
(* base/ambiguous_origin.rs                                                *)
(***************************************************************************)
Unambiguous == "Unambiguous"
ColumnIsAmbiguous == "ColumnIsAmbiguous"
RowIsAmbiguous == "RowIsAmbiguous"
ColumnAndRowAreAmbiguous == "ColumnAndRowAreAmbiguous"

get_ambiguous_status(vec_of_pos) ==
    LET number_of_attackers == Len(vec_of_pos)
        columns == {Col(vec_of_pos[i]) : i \in 1..Len(vec_of_pos)}
        rows == {Row(vec_of_pos[i]) : i \in 1..Len(vec_of_pos)}
        is_column_ambiguous == Cardinality(columns) > 1
        is_row_ambiguous == Cardinality(rows) > 1
    IN  IF number_of_attackers = 1 THEN Unambiguous
        ELSE IF is_column_ambiguous
             THEN (IF is_row_ambiguous THEN ColumnAndRowAreAmbiguous ELSE ColumnIsAmbiguous)
             ELSE (IF is_row_ambiguous THEN RowIsAmbiguous ELSE Unambiguous)

\* TypedLinePositions that pushes the first figure of the colour, of any type
TypedLinePositions_any_type(board, attacked_pos, directions, color, fig_type) ==
    LET hit(i) ==
            LET found_figure == find_first_active_figure_on_line_from(
                                    attacked_pos, directions[i], color, board)
            IN  IF found_figure # NoFoundFigure
                THEN <<found_figure.position>> ELSE <<>>
    IN  hit(1) \o hit(2) \o hit(3) \o hit(4)

\* the positions one for_each over a direction list pushes for one figure type
TypedLinePositions(board, attacked_pos, directions, color, fig_type) ==
    LET hit(i) ==
            LET found_figure == find_first_active_figure_on_line_from(
                                    attacked_pos, directions[i], color, board)
            IN  IF found_figure # NoFoundFigure /\ found_figure.figure_type = fig_type
                THEN <<found_figure.position>> ELSE <<>>
    IN  hit(1) \o hit(2) \o hit(3) \o hit(4)

is_origin_of_bishop_move_ambiguous(board, attacked_pos, bishop_color) ==
    get_ambiguous_status(
        TypedLinePositions(board, attacked_pos, DIAGONAL_DIRECTIONS, bishop_color, Bishop))

is_origin_of_rook_move_ambiguous(board, attacked_pos, rook_color) ==
    get_ambiguous_status(
        TypedLinePositions(board, attacked_pos, STRAIGHT_DIRECTIONS, rook_color, Rook))

is_origin_of_queen_move_ambiguous(board, attacked_pos, queen_color) ==
    get_ambiguous_status(
        TypedLinePositions(board, attacked_pos, STRAIGHT_DIRECTIONS, queen_color, Queen)
        \o TypedLinePositions(board, attacked_pos, DIAGONAL_DIRECTIONS, queen_color, Queen))

is_origin_of_knight_move_ambiguous(board, attacked_pos, knight_color) ==
    get_ambiguous_status(
        SelectSeq(reachable_knight_positions(attacked_pos, toggle(knight_color), board),
                  LAMBDA pos : contains_figure(board, pos, Knight, knight_color)))

\* is_origin_of_move_ambiguous that looks for the other pawn on the destination's column
is_origin_of_move_ambiguous_next_column(board_before_move, from_to) ==
    LET moving_figure == get_figure(board_before_move, from_to.from)
        other_pawn_column ==
            Col(from_to.from) + (Col(from_to.to) - Col(from_to.from))
    IN  CASE moving_figure = NoFigure -> ColumnAndRowAreAmbiguous
          [] moving_figure.fig_type = King -> Unambiguous
          [] moving_figure.fig_type = Pawn ->
                IF /\ Col(from_to.from) # Col(from_to.to)
                   /\ other_pawn_column >= 0 /\ other_pawn_column < 8
                   /\ contains_figure(board_before_move,
                                      new_unchecked(other_pawn_column, Row(from_to.from)),
                                      Pawn, moving_figure.color)
                THEN ColumnIsAmbiguous
                ELSE Unambiguous
          [] moving_figure.fig_type = Rook ->
                is_origin_of_rook_move_ambiguous(
                    board_before_move, from_to.to, moving_figure.color)
          [] moving_figure.fig_type = Knight ->
                is_origin_of_knight_move_ambiguous(
                    board_before_move, from_to.to, moving_figure.color)
          [] moving_figure.fig_type = Bishop ->
                is_origin_of_bishop_move_ambiguous(
                    board_before_move, from_to.to, moving_figure.color)
          [] moving_figure.fig_type = Queen ->
                is_origin_of_queen_move_ambiguous(
                    board_before_move, from_to.to, moving_figure.color)

is_origin_of_move_ambiguous(board_before_move, from_to) ==
    LET moving_figure == get_figure(board_before_move, from_to.from)
        other_pawn_column ==
            Col(from_to.from) + 2 * (Col(from_to.to) - Col(from_to.from))
    IN  CASE moving_figure = NoFigure -> ColumnAndRowAreAmbiguous
          [] moving_figure.fig_type = King -> Unambiguous
          [] moving_figure.fig_type = Pawn ->
                IF /\ Col(from_to.from) # Col(from_to.to)
                   /\ other_pawn_column >= 0 /\ other_pawn_column < 8
                   /\ contains_figure(board_before_move,
                                      new_unchecked(other_pawn_column, Row(from_to.from)),
                                      Pawn, moving_figure.color)
                THEN ColumnIsAmbiguous
                ELSE Unambiguous
          [] moving_figure.fig_type = Rook ->
                is_origin_of_rook_move_ambiguous(
                    board_before_move, from_to.to, moving_figure.color)
          [] moving_figure.fig_type = Knight ->
                is_origin_of_knight_move_ambiguous(
                    board_before_move, from_to.to, moving_figure.color)
          [] moving_figure.fig_type = Bishop ->
                is_origin_of_bishop_move_ambiguous(
                    board_before_move, from_to.to, moving_figure.color)
          [] moving_figure.fig_type = Queen ->
                is_origin_of_queen_move_ambiguous(
                    board_before_move, from_to.to, moving_figure.color)

(***************************************************************************)
(* base/a_move.rs                                                          *)
(***************************************************************************)
FromTo(from, to) == [from |-> from, to |-> to]
NoFromTo == FromTo(NoPos, NoPos)

PromotionTypes == {Rook, Knight, Bishop, Queen}
NoPromotion == "None"

Move_new(from_to) == [from_to |-> from_to, promotion_type |-> NoPromotion]
Move_new_with_promotion(from_to, promotion_type) ==
    [from_to |-> from_to, promotion_type |-> promotion_type]

\* as_encoded with another letter for the queen
as_encoded_dame(promotion_type) ==
    CASE promotion_type = Rook -> "R"
      [] promotion_type = Knight -> "N"
      [] promotion_type = Bishop -> "B"
      [] promotion_type = Queen -> "D"

\* PromotionType::as_encoded
as_encoded(promotion_type) ==
    CASE promotion_type = Rook -> "R"
      [] promotion_type = Knight -> "N"
      [] promotion_type = Bishop -> "B"
      [] promotion_type = Queen -> "Q"

\* PromotionType::from_str: the type, or None for the IllegalFormat error
parse_promotion_type(s) ==
    CASE s = "Q" -> Queen
      [] s = "R" -> Rook
      [] s = "N" -> Knight
      [] s = "B" -> Bishop
      [] OTHER -> NoPromotion

\* MoveType, a tagged union flattened to one record shape
MoveType_Normal ==
    [tag |-> "Normal", promoted_to |-> NoPromotion, captured_pawn_pos |-> NoPos,
     castling_type |-> "None", king_move |-> NoFromTo, rook_move |-> NoFromTo]
MoveType_PawnPromotion(promoted_to) ==
    [MoveType_Normal EXCEPT !.tag = "PawnPromotion", !.promoted_to = promoted_to]
MoveType_EnPassant(captured_pawn_pos) ==
    [MoveType_Normal EXCEPT !.tag = "EnPassant", !.captured_pawn_pos = captured_pawn_pos]
\* MoveType::Castling with the two moves in each other's field
MoveType_Castling_exchanged(castling_type, king_move, rook_move) ==
    [MoveType_Normal EXCEPT !.tag = "Castling", !.castling_type = castling_type,
                            !.king_move = rook_move, !.rook_move = king_move]

MoveType_Castling(castling_type, king_move, rook_move) ==
    [MoveType_Normal EXCEPT !.tag = "Castling", !.castling_type = castling_type,
                            !.king_move = king_move, !.rook_move = rook_move]

\* figure_captured is a FigureType or "None"
MoveData_new(given_move, figure_moved, figure_captured, origin_status, is_check_flag) ==
    [given_from_to |-> given_move, figure_moved |-> figure_moved,
     figure_captured |-> figure_captured, move_type |-> MoveType_Normal,
     origin_status |-> origin_status, is_check |-> is_check_flag]

MoveData_new_en_passant(given_move, origin_status, is_check_flag) ==
    [given_from_to |-> given_move, figure_moved |-> Pawn, figure_captured |-> Pawn,
     move_type |-> MoveType_EnPassant(
                       new_unchecked(Col(given_move.to), Row(given_move.from))),
     origin_status |-> origin_status, is_check |-> is_check_flag]

MoveData_new_pawn_promotion(given_move, figure_captured, promotion_type, origin_status, is_check_flag) ==
    [given_from_to |-> given_move, figure_moved |-> Pawn,
     figure_captured |-> figure_captured,
     move_type |-> MoveType_PawnPromotion(promotion_type),
     origin_status |-> origin_status, is_check |-> is_check_flag]

did_catch_figure(move_data) == move_data.figure_captured # "None"
is_pawn_move(move_data) == move_data.figure_moved = Pawn
did_make_progress(move_data) == is_pawn_move(move_data) \/ did_catch_figure(move_data)

(***************************************************************************)
(* game/game_state.rs                                                      *)
(***************************************************************************)
WHITE_KING_STARTING_POS == new_unchecked(4, 0)
WHITE_KING_SIDE_ROOK_STARTING_POS == new_unchecked(7, 0)
\* the home square of the white queen-side rook taken one column to the right
WHITE_QUEEN_SIDE_ROOK_STARTING_POS_b1 == new_unchecked(1, 0)

WHITE_QUEEN_SIDE_ROOK_STARTING_POS == new_unchecked(0, 0)
BLACK_KING_STARTING_POS == new_unchecked(4, 7)
BLACK_KING_SIDE_ROOK_STARTING_POS == new_unchecked(7, 7)
BLACK_QUEEN_SIDE_ROOK_STARTING_POS == new_unchecked(0, 7)

MovesPlayedData_new ==
    [half_moves_played |-> 0, half_moves_played_without_progress |-> 0]

\* new_after_move for which only a capture is progress
new_after_move_captures_only(moves_played_data, move_data) ==
    [half_moves_played |-> moves_played_data.half_moves_played + 1,
     half_moves_played_without_progress |->
        IF did_catch_figure(move_data)
        THEN 0
        ELSE moves_played_data.half_moves_played_without_progress + 1]

new_after_move(moves_played_data, move_data) ==
    [half_moves_played |-> moves_played_data.half_moves_played + 1,
     half_moves_played_without_progress |->
        IF is_pawn_move(move_data) \/ did_catch_figure(move_data)
        THEN 0
        ELSE moves_played_data.half_moves_played_without_progress + 1]

\* current_round that goes up after the first of two half-moves
current_round_early(moves_played_data) == ((moves_played_data.half_moves_played + 1) \div 2) + 1

current_round(moves_played_data) == (moves_played_data.half_moves_played \div 2) + 1

GameState_classic ==
    [board |-> Board_classic,
     turn_by |-> White,
     white_king_pos |-> new_unchecked(4, 0),
     black_king_pos |-> new_unchecked(4, 7),
     en_passant_intercept_pos |-> NoPos,
     is_white_queen_side_castling_still_allowed |-> TRUE,
     is_white_king_side_castling_still_allowed |-> TRUE,
     is_black_queen_side_castling_still_allowed |-> TRUE,
     is_black_king_side_castling_still_allowed |-> TRUE,
     moves_played_data |-> MovesPlayedData_new]

\* the placement loop of from_manual_config: [err, board, wk, bk] after the
\* figures from index i on, stopping at the first error
RECURSIVE PlaceFigures(_, _, _)
PlaceFigures(acc, positioned_figures, i) ==
    IF i > Len(positioned_figures) \/ acc.err THEN acc
    ELSE
    LET fp == positioned_figures[i]
        in_use == get_figure(acc.board, fp.pos) # NoFigure
        board == set_figure(acc.board, fp.pos, fp.figure)
        bad_pawn == fp.figure.fig_type = Pawn /\ (Row(fp.pos) = 0 \/ Row(fp.pos) = 7)
        second_white_king == fp.figure = Figure(King, White) /\ acc.wk # NoPos
        second_black_king == fp.figure = Figure(King, Black) /\ acc.bk # NoPos
    IN  PlaceFigures(
            [err |-> in_use \/ bad_pawn \/ second_white_king \/ second_black_king,
             board |-> board,
             wk |-> IF fp.figure = Figure(King, White) THEN fp.pos ELSE acc.wk,
             bk |-> IF fp.figure = Figure(King, Black) THEN fp.pos ELSE acc.bk],
            positioned_figures, i + 1)

\* board_contains_rook_at that takes a rook of either colour
board_contains_rook_at_any_color(pos, color, board) ==
    get_figure(board, pos).fig_type = Rook

board_contains_rook_at(pos, color, board) ==
    get_figure(board, pos) = Figure(Rook, color)

\* the en-passant check of from_manual_config: TRUE when it returns an error
en_passant_config_error(turn_by, en_passant_pos, board) ==
    LET expected_row == IF turn_by = White THEN 5 ELSE 2
        forward_dir == IF turn_by = White THEN Down ELSE Up
        forward_pawn_pos == step(en_passant_pos, forward_dir)
        backward_empty_pos == step(en_passant_pos, reverse(forward_dir))
    IN  \/ Row(en_passant_pos) # expected_row
        \/ get_figure(board, forward_pawn_pos) # Figure(Pawn, toggle(turn_by))
        \/ ~is_empty(board, backward_empty_pos)

\* from_manual_config that does not miss the black king
from_manual_config_white_king_only(turn_by, en_passant_intercept_pos, positioned_figures) ==
    LET placed == PlaceFigures([err |-> FALSE, board |-> Board_empty,
                                wk |-> NoPos, bk |-> NoPos],
                               positioned_figures, 1)
        board == placed.board
        failed ==
            \/ placed.err
            \/ (en_passant_intercept_pos # NoPos
                /\ en_passant_config_error(turn_by, en_passant_intercept_pos, board))
            \/ placed.wk = NoPos
        is_white_king_on_starting_pos == placed.wk = WHITE_KING_STARTING_POS
        is_black_king_on_starting_pos == placed.bk = BLACK_KING_STARTING_POS
    IN  IF failed
        THEN [ok |-> FALSE, err |-> "IllegalConfig", game_state |-> GameState_classic]
        ELSE [ok |-> TRUE, err |-> "None",
              game_state |->
                [board |-> board,
                 turn_by |-> turn_by,
                 white_king_pos |-> placed.wk,
                 black_king_pos |-> placed.bk,
                 en_passant_intercept_pos |-> en_passant_intercept_pos,
                 is_white_queen_side_castling_still_allowed |->
                    is_white_king_on_starting_pos
                    /\ board_contains_rook_at(WHITE_QUEEN_SIDE_ROOK_STARTING_POS, White, board),
                 is_white_king_side_castling_still_allowed |->
                    is_white_king_on_starting_pos
                    /\ board_contains_rook_at(WHITE_KING_SIDE_ROOK_STARTING_POS, White, board),
                 is_black_queen_side_castling_still_allowed |->
                    is_black_king_on_starting_pos
                    /\ board_contains_rook_at(BLACK_QUEEN_SIDE_ROOK_STARTING_POS, Black, board),
                 is_black_king_side_castling_still_allowed |->
                    is_black_king_on_starting_pos
                    /\ board_contains_rook_at(BLACK_KING_SIDE_ROOK_STARTING_POS, Black, board),
                 moves_played_data |-> MovesPlayedData_new]]

\* Result<GameState, ChessError>: [ok, err, game_state]
from_manual_config(turn_by, en_passant_intercept_pos, positioned_figures) ==
    LET placed == PlaceFigures([err |-> FALSE, board |-> Board_empty,
                                wk |-> NoPos, bk |-> NoPos],
                               positioned_figures, 1)
        board == placed.board
        failed ==
            \/ placed.err
            \/ (en_passant_intercept_pos # NoPos
                /\ en_passant_config_error(turn_by, en_passant_intercept_pos, board))
            \/ placed.wk = NoPos
            \/ placed.bk = NoPos
        is_white_king_on_starting_pos == placed.wk = WHITE_KING_STARTING_POS
        is_black_king_on_starting_pos == placed.bk = BLACK_KING_STARTING_POS
    IN  IF failed
        THEN [ok |-> FALSE, err |-> "IllegalConfig", game_state |-> GameState_classic]
        ELSE [ok |-> TRUE, err |-> "None",
              game_state |->
                [board |-> board,
                 turn_by |-> turn_by,
                 white_king_pos |-> placed.wk,
                 black_king_pos |-> placed.bk,
                 en_passant_intercept_pos |-> en_passant_intercept_pos,
                 is_white_queen_side_castling_still_allowed |->
                    is_white_king_on_starting_pos
                    /\ board_contains_rook_at(WHITE_QUEEN_SIDE_ROOK_STARTING_POS, White, board),
                 is_white_king_side_castling_still_allowed |->
                    is_white_king_on_starting_pos
                    /\ board_contains_rook_at(WHITE_KING_SIDE_ROOK_STARTING_POS, White, board),
                 is_black_queen_side_castling_still_allowed |->
                    is_black_king_on_starting_pos
                    /\ board_contains_rook_at(BLACK_QUEEN_SIDE_ROOK_STARTING_POS, Black, board),
                 is_black_king_side_castling_still_allowed |->
                    is_black_king_on_starting_pos
                    /\ board_contains_rook_at(BLACK_KING_SIDE_ROOK_STARTING_POS, Black, board),
                 moves_played_data |-> MovesPlayedData_new]]

\* looks_like_pawn_promotion_move that knows the last row of white only
looks_like_pawn_promotion_move_white_only(self, a_move) ==
    /\ get_figure(self.board, a_move.from).fig_type = Pawn
    /\ Row(a_move.to) = 7

looks_like_pawn_promotion_move(self, a_move) ==
    /\ get_figure(self.board, a_move.from).fig_type = Pawn
    /\ (Row(a_move.to) = 7 \/ Row(a_move.to) = 0)

\* looks_like_castling that never sees a castling
looks_like_castling_never(self, a_move) ==
    [ok |-> TRUE, err |-> "None", value |-> FALSE]

\* Result<bool, ChessError>: [ok, err, value]
looks_like_castling(self, a_move) ==
    LET ground_row == get_ground_row(self.turn_by) IN
    IF get_figure(self.board, a_move.from).fig_type # King
    THEN [ok |-> TRUE, err |-> "None", value |-> FALSE]
    ELSE IF get_figure(self.board, a_move.to) = Figure(Rook, self.turn_by)
    THEN [ok |-> TRUE, err |-> "None", value |-> TRUE]
    ELSE IF /\ get_row_distance(a_move.from, a_move.to) > 1
            /\ Row(a_move.from) = ground_row
            /\ Row(a_move.to) = ground_row
    THEN [ok |-> FALSE, err |-> "IllegalFormat", value |-> FALSE]
    ELSE [ok |-> TRUE, err |-> "None", value |-> FALSE]

get_passive_king_pos(self) ==
    IF self.turn_by = Black THEN self.white_king_pos ELSE self.black_king_pos

\* [board, captured]: the board after the move and the captured figure type
do_normal_move(new_board, next_move) ==
    LET moving_figure == get_figure(new_board, next_move.from)
        cleared == clear_field(new_board, next_move.from)
    IN  [board |-> set_figure(cleared, next_move.to, moving_figure),
         captured |-> CaptureInfo(cleared, next_move.to)]

\* do_castling_move with the king and the rook set down on each other's square
do_castling_move_swapped(new_board, king_move, king_color) ==
    LET cleared == clear_field(clear_field(new_board, king_move.from), king_move.to)
        move_row == Row(king_move.to)
        king_side == Col(king_move.to) > Col(king_move.from)
        rook_to_pos == IF king_side THEN new_unchecked(5, move_row)
                       ELSE new_unchecked(3, move_row)
        king_to_pos == IF king_side THEN new_unchecked(6, move_row)
                       ELSE new_unchecked(2, move_row)
    IN  [board |-> set_figure(set_figure(cleared, rook_to_pos, Figure(King, king_color)),
                              king_to_pos, Figure(Rook, king_color)),
         king_move |-> FromTo(king_move.from, king_to_pos),
         rook_move |-> FromTo(king_move.to, rook_to_pos)]

\* [board, king_move, rook_move]
do_castling_move(new_board, king_move, king_color) ==
    LET cleared == clear_field(clear_field(new_board, king_move.from), king_move.to)
        move_row == Row(king_move.to)
        king_side == Col(king_move.to) > Col(king_move.from)
        rook_to_pos == IF king_side THEN new_unchecked(5, move_row)
                       ELSE new_unchecked(3, move_row)
        king_to_pos == IF king_side THEN new_unchecked(6, move_row)
                       ELSE new_unchecked(2, move_row)
    IN  [board |-> set_figure(set_figure(cleared, king_to_pos, Figure(King, king_color)),
                              rook_to_pos, Figure(Rook, king_color)),
         king_move |-> FromTo(king_move.from, king_to_pos),
         rook_move |-> FromTo(king_move.to, rook_to_pos)]

\* double_stepped_pawn_pos taking the rank of the destination
double_stepped_pawn_pos_on_target_rank(next_move) ==
    new_unchecked(Col(next_move.to), Row(next_move.to))

\* the square of the pawn an en-passant move captures
double_stepped_pawn_pos(next_move) ==
    new_unchecked(Col(next_move.to), Row(next_move.from))

do_en_passant_move(new_board, next_move) ==
    clear_field(do_normal_move(new_board, next_move).board,
                double_stepped_pawn_pos(next_move))

\* compute_pawn_move_type that takes a double step for a single step
compute_pawn_move_type_no_double_step(this, pawn_move) ==
    IF pawn_move.promotion_type # NoPromotion THEN "Promotion"
    ELSE IF /\ this.en_passant_intercept_pos # NoPos
            /\ pawn_move.from_to.to = this.en_passant_intercept_pos
    THEN "EnPassantIntercept"
    ELSE "SingleStep"

compute_pawn_move_type(this, pawn_move) ==
    IF pawn_move.promotion_type # NoPromotion THEN "Promotion"
    ELSE IF get_row_distance(pawn_move.from_to.from, pawn_move.from_to.to) = 2
    THEN "DoubleStep"
    ELSE IF /\ this.en_passant_intercept_pos # NoPos
            /\ pawn_move.from_to.to = this.en_passant_intercept_pos
    THEN "EnPassantIntercept"
    ELSE "SingleStep"

\* handle_pawn_promotion_after_move that sets a queen whatever the kind
handle_pawn_promotion_after_move_queen_only(new_board, pawn_move, pawn_color) ==
    IF pawn_move.promotion_type # NoPromotion
    THEN set_figure(new_board, pawn_move.from_to.to, Figure(Queen, pawn_color))
    ELSE new_board

handle_pawn_promotion_after_move(new_board, pawn_move, pawn_color) ==
    IF pawn_move.promotion_type # NoPromotion
    THEN set_figure(new_board, pawn_move.from_to.to,
                    Figure(pawn_move.promotion_type, pawn_color))
    ELSE new_board

\* whether the King branch of do_move treats the move as castling
is_castling(self, next_move) ==
    /\ get_figure(self.board, next_move.from_to.from).fig_type = King
    /\ get_figure(self.board, next_move.from_to.to)
           = Figure(Rook, get_figure(self.board, next_move.from_to.from).color)

\* the King branch: [board, white_king_pos, black_king_pos, en_passant, move_stats]
do_king_move(self, next_move, moving_figure) ==
    LET castled == do_castling_move(self.board, next_move.from_to, moving_figure.color)
        normal == do_normal_move(self.board, next_move.from_to)
        castling == is_castling(self, next_move)
        new_board == IF castling THEN castled.board ELSE normal.board
        effective_king_move == IF castling THEN castled.king_move ELSE next_move.from_to
        figure_captured == IF castling THEN "None" ELSE normal.captured
        is_check_flag ==
            IF castling THEN is_check(new_board, get_passive_king_pos(self)) ELSE FALSE
        stats == MoveData_new(next_move.from_to, King, figure_captured,
                              Unambiguous, is_check_flag)
        move_type ==
            IF castling
            THEN MoveType_Castling(
                     IF Col(castled.rook_move.to) = 3 THEN "QueenSide" ELSE "KingSide",
                     effective_king_move, castled.rook_move)
            ELSE MoveType_Normal
    IN  [board |-> new_board,
         white_king_pos |-> IF moving_figure.color = White
                            THEN effective_king_move.to ELSE self.white_king_pos,
         black_king_pos |-> IF moving_figure.color = White
                            THEN self.black_king_pos ELSE effective_king_move.to,
         en_passant |-> NoPos,
         move_stats |-> [stats EXCEPT !.move_type = move_type]]

\* the Pawn branch
do_pawn_move(self, next_move, origin_status) ==
    LET from == next_move.from_to.from
        to == next_move.from_to.to
        pawn_move_type == compute_pawn_move_type(self, next_move)
        normal == do_normal_move(self.board, next_move.from_to)
        passive_king_pos == get_passive_king_pos(self)
    IN  CASE pawn_move_type = "Promotion" ->
                LET new_board == handle_pawn_promotion_after_move(
                                     normal.board, next_move, self.turn_by)
                IN  [board |-> new_board,
                     white_king_pos |-> self.white_king_pos,
                     black_king_pos |-> self.black_king_pos,
                     en_passant |-> NoPos,
                     move_stats |-> MoveData_new_pawn_promotion(
                                        next_move.from_to, normal.captured,
                                        next_move.promotion_type, origin_status,
                                        is_check(new_board, passive_king_pos))]
          [] pawn_move_type = "SingleStep" ->
                LET new_board == handle_pawn_promotion_after_move(
                                     normal.board, next_move, self.turn_by)
                IN  [board |-> new_board,
                     white_king_pos |-> self.white_king_pos,
                     black_king_pos |-> self.black_king_pos,
                     en_passant |-> NoPos,
                     move_stats |-> MoveData_new(
                                        next_move.from_to, Pawn, normal.captured,
                                        origin_status,
                                        is_check(new_board, passive_king_pos))]
          [] pawn_move_type = "DoubleStep" ->
                [board |-> normal.board,
                 white_king_pos |-> self.white_king_pos,
                 black_king_pos |-> self.black_king_pos,
                 en_passant |-> new_unchecked(Col(to), (Row(from) + Row(to)) \div 2),
                 move_stats |-> MoveData_new(
                                    next_move.from_to, Pawn, "None", origin_status,
                                    is_check(normal.board, passive_king_pos))]
          [] pawn_move_type = "EnPassantIntercept" ->
                LET new_board == do_en_passant_move(self.board, next_move.from_to)
                IN  [board |-> new_board,
                     white_king_pos |-> self.white_king_pos,
                     black_king_pos |-> self.black_king_pos,
                     en_passant |-> NoPos,
                     move_stats |-> MoveData_new_en_passant(
                                        next_move.from_to, origin_status,
                                        is_check(new_board, passive_king_pos))]

\* the branch of every other figure type
do_other_move(self, next_move, moving_figure, origin_status) ==
    LET normal == do_normal_move(self.board, next_move.from_to)
    IN  [board |-> normal.board,
         white_king_pos |-> self.white_king_pos,
         black_king_pos |-> self.black_king_pos,
         en_passant |-> NoPos,
         move_stats |-> MoveData_new(
                            next_move.from_to, moving_figure.fig_type, normal.captured,
                            origin_status,
                            is_check(normal.board, get_passive_king_pos(self)))]

\* the board on which do_move runs is_check, if it does
BoardForIsCheck(self, next_move) ==
    LET moving_figure == get_figure(self.board, next_move.from_to.from)
    IN  IF moving_figure.fig_type = King
        THEN do_king_move(self, next_move, moving_figure).board
        ELSE IF moving_figure.fig_type = Pawn
        THEN do_pawn_move(self, next_move, Unambiguous).board
        ELSE do_normal_move(self.board, next_move.from_to).board

\* the inputs on which do_move does not return: a failed debug_assert, an
\* unwrap of None, a panic of is_check
do_move_panics(self, next_move) ==
    LET from == next_move.from_to.from
        to == next_move.from_to.to
        moving_figure == get_figure(self.board, from)
    IN  \/ to = self.white_king_pos
        \/ to = self.black_king_pos
        \/ ~contains_figure(self.board, self.white_king_pos, King, White)
        \/ ~contains_figure(self.board, self.black_king_pos, King, Black)
        \/ moving_figure = NoFigure
        \/ /\ moving_figure.fig_type = Pawn
           /\ compute_pawn_move_type(self, next_move) = "EnPassantIntercept"
           /\ get_figure(do_normal_move(self.board, next_move.from_to).board,
                         double_stepped_pawn_pos(next_move.from_to)) = NoFigure
        \/ /\ ~(moving_figure.fig_type = King /\ ~is_castling(self, next_move))
           /\ is_check_panics(BoardForIsCheck(self, next_move), get_passive_king_pos(self))

\* the match of do_move on the type of the moving figure
do_move_match(self, next_move, moving_figure, origin_status) ==
    IF moving_figure.fig_type = King
    THEN do_king_move(self, next_move, moving_figure)
    ELSE IF moving_figure.fig_type = Pawn
    THEN do_pawn_move(self, next_move, origin_status)
    ELSE do_other_move(self, next_move, moving_figure, origin_status)

\* do_move_return with latches that do not start from those of self
do_move_return_fresh_latches(self, next_move, moving_figure, branch) ==
    LET from == next_move.from_to.from
        to == next_move.from_to.to
        king_moves(color) == moving_figure = Figure(King, color)
    IN  [game_state |->
            [board |-> branch.board,
             turn_by |-> toggle(self.turn_by),
             white_king_pos |-> branch.white_king_pos,
             black_king_pos |-> branch.black_king_pos,
             en_passant_intercept_pos |-> branch.en_passant,
             is_white_queen_side_castling_still_allowed |->
                /\ ~(from = WHITE_QUEEN_SIDE_ROOK_STARTING_POS
                     \/ to = WHITE_QUEEN_SIDE_ROOK_STARTING_POS)
                /\ ~king_moves(White),
             is_white_king_side_castling_still_allowed |->
                /\ ~(from = WHITE_KING_SIDE_ROOK_STARTING_POS
                     \/ to = WHITE_KING_SIDE_ROOK_STARTING_POS)
                /\ ~king_moves(White),
             is_black_queen_side_castling_still_allowed |->
                /\ ~(from = BLACK_QUEEN_SIDE_ROOK_STARTING_POS
                     \/ to = BLACK_QUEEN_SIDE_ROOK_STARTING_POS)
                /\ ~king_moves(Black),
             is_black_king_side_castling_still_allowed |->
                /\ ~(from = BLACK_KING_SIDE_ROOK_STARTING_POS
                     \/ to = BLACK_KING_SIDE_ROOK_STARTING_POS)
                /\ ~king_moves(Black),
             moves_played_data |->
                new_after_move(self.moves_played_data, branch.move_stats)],
         move_data |-> branch.move_stats]

\* do_move_return that looks at the origin of the move only when it disallows
\* the latches of the rooks
do_move_return_origin_only(self, next_move, moving_figure, branch) ==
    LET from == next_move.from_to.from
        king_moves(color) == moving_figure = Figure(King, color)
    IN  [game_state |->
            [board |-> branch.board,
             turn_by |-> toggle(self.turn_by),
             white_king_pos |-> branch.white_king_pos,
             black_king_pos |-> branch.black_king_pos,
             en_passant_intercept_pos |-> branch.en_passant,
             is_white_queen_side_castling_still_allowed |->
                /\ self.is_white_queen_side_castling_still_allowed
                /\ from # WHITE_QUEEN_SIDE_ROOK_STARTING_POS
                /\ ~king_moves(White),
             is_white_king_side_castling_still_allowed |->
                /\ self.is_white_king_side_castling_still_allowed
                /\ from # WHITE_KING_SIDE_ROOK_STARTING_POS
                /\ ~king_moves(White),
             is_black_queen_side_castling_still_allowed |->
                /\ self.is_black_queen_side_castling_still_allowed
                /\ from # BLACK_QUEEN_SIDE_ROOK_STARTING_POS
                /\ ~king_moves(Black),
             is_black_king_side_castling_still_allowed |->
                /\ self.is_black_king_side_castling_still_allowed
                /\ from # BLACK_KING_SIDE_ROOK_STARTING_POS
                /\ ~king_moves(Black),
             moves_played_data |->
                new_after_move(self.moves_played_data, branch.move_stats)],
         move_data |-> branch.move_stats]

\* the tuple do_move returns, from what the match has computed
do_move_return(self, next_move, moving_figure, branch) ==
    LET from == next_move.from_to.from
        to == next_move.from_to.to
        king_moves(color) == moving_figure = Figure(King, color)
    IN  [game_state |->
            [board |-> branch.board,
             turn_by |-> toggle(self.turn_by),
             white_king_pos |-> branch.white_king_pos,
             black_king_pos |-> branch.black_king_pos,
             en_passant_intercept_pos |-> branch.en_passant,
             is_white_queen_side_castling_still_allowed |->
                /\ self.is_white_queen_side_castling_still_allowed
                /\ ~(from = WHITE_QUEEN_SIDE_ROOK_STARTING_POS
                     \/ to = WHITE_QUEEN_SIDE_ROOK_STARTING_POS)
                /\ ~king_moves(White),
             is_white_king_side_castling_still_allowed |->
                /\ self.is_white_king_side_castling_still_allowed
                /\ ~(from = WHITE_KING_SIDE_ROOK_STARTING_POS
                     \/ to = WHITE_KING_SIDE_ROOK_STARTING_POS)
                /\ ~king_moves(White),
             is_black_queen_side_castling_still_allowed |->
                /\ self.is_black_queen_side_castling_still_allowed
                /\ ~(from = BLACK_QUEEN_SIDE_ROOK_STARTING_POS
                     \/ to = BLACK_QUEEN_SIDE_ROOK_STARTING_POS)
                /\ ~king_moves(Black),
             is_black_king_side_castling_still_allowed |->
                /\ self.is_black_king_side_castling_still_allowed
                /\ ~(from = BLACK_KING_SIDE_ROOK_STARTING_POS
                     \/ to = BLACK_KING_SIDE_ROOK_STARTING_POS)
                /\ ~king_moves(Black),
             moves_played_data |->
                new_after_move(self.moves_played_data, branch.move_stats)],
         move_data |-> branch.move_stats]

\* (GameState, MoveData): [game_state, move_data]
do_move(self, next_move) ==
    do_move_return(self, next_move, get_figure(self.board, next_move.from_to.from),
        do_move_match(self, next_move, get_figure(self.board, next_move.from_to.from),
            is_origin_of_move_ambiguous(self.board, next_move.from_to)))

(***************************************************************************)
(* get_fen: the FEN text of a GameState, a sequence of characters          *)
(***************************************************************************)
Color_get_fen_char(color) == IF color = Black THEN "b" ELSE "w"

Figure_get_fen_char(figure) ==
    CASE figure.fig_type = Pawn -> IF figure.color = White THEN "P" ELSE "p"
      [] figure.fig_type = Rook -> IF figure.color = White THEN "R" ELSE "r"
      [] figure.fig_type = Knight -> IF figure.color = White THEN "N" ELSE "n"
      [] figure.fig_type = Bishop -> IF figure.color = White THEN "B" ELSE "b"
      [] figure.fig_type = Queen -> IF figure.color = White THEN "Q" ELSE "q"
      [] figure.fig_type = King -> IF figure.color = White THEN "K" ELSE "k"

DigitChars == <<"0", "1", "2", "3", "4", "5", "6", "7", "8", "9">>
ColumnChars == <<"a", "b", "c", "d", "e", "f", "g", "h">>

\* to_string of an unsigned number
RECURSIVE to_string(_)
to_string(n) ==
    IF n < 10 THEN <<DigitChars[n + 1]>>
    ELSE to_string(n \div 10) \o <<DigitChars[(n % 10) + 1]>>

\* Display of a Position: the column's letter and the row's number
Position_to_string(pos) == <<ColumnChars[Col(pos) + 1], DigitChars[Row(pos) + 2]>>

\* the inner for loop of get_fen_part1 from a column on, and what follows it
RECURSIVE fen_row(_, _, _, _)
fen_row(board, row, column, fields_without_figure) ==
    IF column > 7
    THEN (IF fields_without_figure # 0 THEN to_string(fields_without_figure) ELSE <<>>)
    ELSE IF board.state[new_unchecked(column, row)] = NoFigure
    THEN fen_row(board, row, column + 1, fields_without_figure + 1)
    ELSE (IF fields_without_figure # 0 THEN to_string(fields_without_figure) ELSE <<>>)
         \o <<Figure_get_fen_char(board.state[new_unchecked(column, row)])>>
         \o fen_row(board, row, column + 1, 0)

\* the loop of get_fen_part1 from a row down
RECURSIVE fen_rows(_, _)
fen_rows(board, row) ==
    fen_row(board, row, 0, 0)
    \o (IF row = 0 THEN <<>> ELSE <<"/">> \o fen_rows(board, row - 1))

get_fen_part1(board) == fen_rows(board, 7)

\* get_fen_part1to4 that pushes the queen side's letter before the king side's
get_fen_part1to4_queen_side_first(self) ==
    get_fen_part1(self.board)
    \o <<" ", Color_get_fen_char(self.turn_by), " ">>
    \o (IF self.is_white_queen_side_castling_still_allowed THEN <<"Q">> ELSE <<>>)
    \o (IF self.is_white_king_side_castling_still_allowed THEN <<"K">> ELSE <<>>)
    \o (IF self.is_black_queen_side_castling_still_allowed THEN <<"q">> ELSE <<>>)
    \o (IF self.is_black_king_side_castling_still_allowed THEN <<"k">> ELSE <<>>)
    \o (IF ~(\/ self.is_white_king_side_castling_still_allowed
             \/ self.is_white_queen_side_castling_still_allowed
             \/ self.is_black_king_side_castling_still_allowed
             \/ self.is_black_queen_side_castling_still_allowed)
        THEN <<"-">> ELSE <<>>)
    \o <<" ">>
    \o (IF self.en_passant_intercept_pos = NoPos THEN <<"-">>
        ELSE Position_to_string(self.en_passant_intercept_pos))

get_fen_part1to4(self) ==
    get_fen_part1(self.board)
    \o <<" ", Color_get_fen_char(self.turn_by), " ">>
    \o (IF self.is_white_king_side_castling_still_allowed THEN <<"K">> ELSE <<>>)
    \o (IF self.is_white_queen_side_castling_still_allowed THEN <<"Q">> ELSE <<>>)
    \o (IF self.is_black_king_side_castling_still_allowed THEN <<"k">> ELSE <<>>)
    \o (IF self.is_black_queen_side_castling_still_allowed THEN <<"q">> ELSE <<>>)
    \o (IF ~(\/ self.is_white_king_side_castling_still_allowed
             \/ self.is_white_queen_side_castling_still_allowed
             \/ self.is_black_king_side_castling_still_allowed
             \/ self.is_black_queen_side_castling_still_allowed)
        THEN <<"-">> ELSE <<>>)
    \o <<" ">>
    \o (IF self.en_passant_intercept_pos = NoPos THEN <<"-">>
        ELSE Position_to_string(self.en_passant_intercept_pos))

get_fen(self) ==
    get_fen_part1to4(self)
    \o <<" ">>
    \o to_string(self.moves_played_data.half_moves_played_without_progress)
    \o <<" ">>
    \o to_string(current_round(self.moves_played_data))

(***************************************************************************)
(* compression/base64.rs: a text is a sequence of characters, a character  *)
(* a string of length one                                                  *)
(***************************************************************************)
\* the array of encode_base64
url_safe_base64_chars ==
    <<
      "A", "B", "C", "D", "E", "F", "G", "H", "I", "J", "K", "L", "M", "N", "O", "P",
      "Q", "R", "S", "T", "U", "V", "W", "X", "Y", "Z", "a", "b", "c", "d", "e", "f",
      "g", "h", "i", "j", "k", "l", "m", "n", "o", "p", "q", "r", "s", "t", "u", "v",
      "w", "x", "y", "z", "0", "1", "2", "3", "4", "5", "6", "7", "8", "9", "-", "_"
    >>

\* encode_base64 reading the array from its other end
encode_base64_mirrored(position) == url_safe_base64_chars[64 - position]

encode_base64(position) == url_safe_base64_chars[position + 1]

\* the match of decode_base64
decoded_value ==
    "A" :> 0 @@ "B" :> 1 @@ "C" :> 2 @@ "D" :> 3 @@ "E" :> 4 @@ "F" :> 5
    @@ "G" :> 6 @@ "H" :> 7 @@ "I" :> 8 @@ "J" :> 9 @@ "K" :> 10 @@ "L" :> 11
    @@ "M" :> 12 @@ "N" :> 13 @@ "O" :> 14 @@ "P" :> 15 @@ "Q" :> 16 @@ "R" :> 17
    @@ "S" :> 18 @@ "T" :> 19 @@ "U" :> 20 @@ "V" :> 21 @@ "W" :> 22 @@ "X" :> 23
    @@ "Y" :> 24 @@ "Z" :> 25 @@ "a" :> 26 @@ "b" :> 27 @@ "c" :> 28 @@ "d" :> 29
    @@ "e" :> 30 @@ "f" :> 31 @@ "g" :> 32 @@ "h" :> 33 @@ "i" :> 34 @@ "j" :> 35
    @@ "k" :> 36 @@ "l" :> 37 @@ "m" :> 38 @@ "n" :> 39 @@ "o" :> 40 @@ "p" :> 41
    @@ "q" :> 42 @@ "r" :> 43 @@ "s" :> 44 @@ "t" :> 45 @@ "u" :> 46 @@ "v" :> 47
    @@ "w" :> 48 @@ "x" :> 49 @@ "y" :> 50 @@ "z" :> 51 @@ "0" :> 52 @@ "1" :> 53
    @@ "2" :> 54 @@ "3" :> 55 @@ "4" :> 56 @@ "5" :> 57 @@ "6" :> 58 @@ "7" :> 59
    @@ "8" :> 60 @@ "9" :> 61 @@ "-" :> 62 @@ "_" :> 63

\* decode_base64 that takes the value's low bits for the row
decode_base64_transposed(character) ==
    IF character \in DOMAIN decoded_value
    THEN [ok |-> TRUE, err |-> "None",
          pos |-> new_unchecked(decoded_value[character] \div 8,
                                decoded_value[character] % 8)]
    ELSE [ok |-> FALSE, err |-> "IllegalFormat", pos |-> NoPos]

\* Result<Position, ChessError>: [ok, err, pos]
decode_base64(character) ==
    IF character \in DOMAIN decoded_value
    THEN [ok |-> TRUE, err |-> "None",
          pos |-> new_unchecked(decoded_value[character] % 8,
                                decoded_value[character] \div 8)]
    ELSE [ok |-> FALSE, err |-> "IllegalFormat", pos |-> NoPos]

\* the characters the regular expression ^([a-z]|[A-Z]|[0-9]|-|_)*$ admits
LowerCase ==
    {"a", "b", "c", "d", "e", "f", "g", "h", "i", "j", "k", "l", "m",
     "n", "o", "p", "q", "r", "s", "t", "u", "v", "w", "x", "y", "z"}
UpperCase ==
    {"A", "B", "C", "D", "E", "F", "G", "H", "I", "J", "K", "L", "M",
     "N", "O", "P", "Q", "R", "S", "T", "U", "V", "W", "X", "Y", "Z"}
Digits == {"0", "1", "2", "3", "4", "5", "6", "7", "8", "9"}
UrlSafeChars == LowerCase \cup UpperCase \cup Digits \cup {"-", "_"}

\* whether the text passes (TRUE for Ok, FALSE for the IllegalFormat error)
assert_is_url_safe_base64(str) ==
    \A i \in 1..Len(str) : str[i] \in UrlSafeChars

(***************************************************************************)
(* compression/compress.rs                                                 *)
(***************************************************************************)
\* whether the vector contains the position
Contains(vec, pos) == \E i \in 1..Len(vec) : vec[i] = pos

\* compress_move that drops the origin when the resolver finds at most two
compress_move_drops_of_two(game_state, next_move, castling, reach) ==
    LET from == next_move.from_to.from
        to == next_move.from_to.to
        failed(err) == [outcome |-> "Err", err |-> err, chunk |-> <<>>,
                        game_state |-> game_state]
        from_pos_can_be_dropped == ~castling.value /\ Len(reach.origins) <= 2
        positions == IF from_pos_can_be_dropped
                     THEN <<encode_base64(to)>>
                     ELSE <<encode_base64(from), encode_base64(to)>>
        chunk == IF next_move.promotion_type # NoPromotion
                 THEN Append(positions, as_encoded(next_move.promotion_type))
                 ELSE positions
    IN  IF ~castling.ok THEN failed(castling.err)
        ELSE IF ~castling.value /\ ~reach.ok THEN failed(reach.err)
        ELSE IF ~castling.value /\ ~Contains(reach.origins, from) THEN failed("IllegalMove")
        ELSE IF do_move_panics(game_state, next_move)
        THEN [outcome |-> "Panic", err |-> "None", chunk |-> chunk,
              game_state |-> game_state]
        ELSE [outcome |-> "Continue", err |-> "None", chunk |-> chunk,
              game_state |-> do_move(game_state, next_move).game_state]

\* one iteration of the loop of compress, from the state of the replay and
\* the next move: [outcome, err, chunk, game_state], the outcome "Err" for an
\* early return, "Panic" for a do_move that does not return, else "Continue";
\* chunk is what the iteration pushes to encoded_moves
compress_move(game_state, next_move, castling, reach) ==
    LET from == next_move.from_to.from
        to == next_move.from_to.to
        failed(err) == [outcome |-> "Err", err |-> err, chunk |-> <<>>,
                        game_state |-> game_state]
        from_pos_can_be_dropped == ~castling.value /\ Len(reach.origins) = 1
        positions == IF from_pos_can_be_dropped
                     THEN <<encode_base64(to)>>
                     ELSE <<encode_base64(from), encode_base64(to)>>
        chunk == IF next_move.promotion_type # NoPromotion
                 THEN Append(positions, as_encoded(next_move.promotion_type))
                 ELSE positions
    IN  IF ~castling.ok THEN failed(castling.err)
        ELSE IF ~castling.value /\ ~reach.ok THEN failed(reach.err)
        ELSE IF ~castling.value /\ ~Contains(reach.origins, from) THEN failed("IllegalMove")
        ELSE IF do_move_panics(game_state, next_move)
        THEN [outcome |-> "Panic", err |-> "None", chunk |-> chunk,
              game_state |-> game_state]
        ELSE [outcome |-> "Continue", err |-> "None", chunk |-> chunk,
              game_state |-> do_move(game_state, next_move).game_state]

\* the iteration, from what looks_like_castling and the resolver return
compress_iteration(game_state, next_move) ==
    compress_move(game_state, next_move,
        looks_like_castling(game_state, next_move.from_to),
        get_positions_to_reach_target_from(next_move.from_to.to, game_state))

(***************************************************************************)
(* compression/decompress.rs                                               *)
(***************************************************************************)
NoMoveData ==
    [given_from_to |-> NoFromTo, figure_moved |-> "None", figure_captured |-> "None",
     move_type |-> MoveType_Normal, origin_status |-> Unambiguous, is_check |-> FALSE]

\* one iteration of the loop of decompress, from the state of the replay and
\* the characters not yet read: [outcome, err, consumed, truncated, game_state,
\* move_data], the outcome "Break" at the end of the text, "Err" for an early
\* return, "Panic" for a do_move that does not return, else "Continue";
\* consumed counts the characters read, truncated tells that the iteration
\* read past the end of the text
\* an iteration that leaves the loop, or the function
decompress_stop(game_state, outcome, err, consumed, truncated) ==
    [outcome |-> outcome, err |-> err, consumed |-> consumed,
     truncated |-> truncated, game_state |-> game_state, move_data |-> NoMoveData]

\* an iteration that has pushed what do_move returned
decompress_continue(consumed, result) ==
    [outcome |-> "Continue", err |-> "None", consumed |-> consumed, truncated |-> FALSE,
     game_state |-> result.game_state, move_data |-> result.move_data]

\* the end of the iteration: do_move on the move it has read
decompress_do_move(game_state, next_move, consumed) ==
    IF do_move_panics(game_state, next_move)
    THEN decompress_stop(game_state, "Panic", "None", consumed, FALSE)
    ELSE decompress_continue(consumed, do_move(game_state, next_move))

\* the iteration from the promotion check on, `read` characters having given from_to
decompress_promotion(game_state, encoded_chars, from_to, read) ==
    LET promotion_type == parse_promotion_type(encoded_chars[read + 1])
    IN  IF ~looks_like_pawn_promotion_move(game_state, from_to)
        THEN decompress_do_move(game_state, Move_new(from_to), read)
        ELSE IF Len(encoded_chars) < read + 1
        THEN decompress_stop(game_state, "Err", "IllegalFormat", read, TRUE)
        ELSE IF promotion_type = NoPromotion
        THEN decompress_stop(game_state, "Err", "IllegalFormat", read + 1, FALSE)
        ELSE decompress_do_move(game_state,
                 Move_new_with_promotion(from_to, promotion_type), read + 1)

\* the iteration from the first character on, reach being what the resolver
\* returns for the square it names
decompress_positions(game_state, encoded_chars, first, reach) ==
    LET active_color == game_state.turn_by
        two_positions == contains_color(game_state.board, first.pos, active_color)
        second == decode_base64(encoded_chars[2])
    IN  IF ~first.ok THEN decompress_stop(game_state, "Err", first.err, 1, FALSE)
        ELSE IF two_positions /\ Len(encoded_chars) < 2
        THEN decompress_stop(game_state, "Err", "IllegalFormat", 1, TRUE)
        ELSE IF two_positions /\ ~second.ok
        THEN decompress_stop(game_state, "Err", second.err, 2, FALSE)
        ELSE IF ~two_positions /\ ~reach.ok
        THEN decompress_stop(game_state, "Err", reach.err, 1, FALSE)
        ELSE IF ~two_positions /\ Len(reach.origins) # 1
        THEN decompress_stop(game_state, "Err", "IllegalFormat", 1, FALSE)
        ELSE decompress_promotion(game_state, encoded_chars,
                 IF two_positions THEN FromTo(first.pos, second.pos)
                 ELSE FromTo(reach.origins[1], first.pos),
                 IF two_positions THEN 2 ELSE 1)

decompress_iteration(game_state, encoded_chars) ==
    IF Len(encoded_chars) = 0
    THEN decompress_stop(game_state, "Break", "None", 0, FALSE)
    ELSE decompress_positions(game_state, encoded_chars, decode_base64(encoded_chars[1]),
             get_positions_to_reach_target_from(
                 decode_base64(encoded_chars[1]).pos, game_state))

(***************************************************************************)
(* The callers' side: which moves are legal chess moves.  The engine does  *)
(* not check legality (callers supply legal moves), so legality is stated  *)
(* here from the rules of chess, by the forward geometry of each figure,   *)
(* independently of the resolver and of is_check.                          *)
(***************************************************************************)
Sign(x) == IF x > 0 THEN 1 ELSE IF x < 0 THEN 0 - 1 ELSE 0

OnLine(from, to) ==
    /\ from # to
    /\ \/ Col(from) = Col(to)
       \/ Row(from) = Row(to)
       \/ Abs(Col(from) - Col(to)) = Abs(Row(from) - Row(to))

\* the squares strictly between two squares on one line
Between(from, to) ==
    LET dc == Sign(Col(to) - Col(from))
        dr == Sign(Row(to) - Row(from))
        n == IF Col(from) # Col(to) THEN Abs(Col(to) - Col(from))
             ELSE Abs(Row(to) - Row(from))
    IN  {new_unchecked(Col(from) + k * dc, Row(from) + k * dr) : k \in 1..(n - 1)}

PathClear(board, from, to) ==
    \A p \in Between(from, to) : board.state[p] = NoFigure

Forward(color) == IF color = White THEN 1 ELSE 0 - 1

\* the figure on from attacks the square to
Attacks(board, from, to) ==
    LET fig == board.state[from]
        dc == Abs(Col(to) - Col(from))
        dr == Abs(Row(to) - Row(from))
    IN  CASE fig.fig_type = Pawn ->
                dc = 1 /\ Row(to) = Row(from) + Forward(fig.color)
          [] fig.fig_type = Knight -> (dc = 1 /\ dr = 2) \/ (dc = 2 /\ dr = 1)
          [] fig.fig_type = King -> from # to /\ dc <= 1 /\ dr <= 1
          [] fig.fig_type = Rook ->
                from # to /\ (dc = 0 \/ dr = 0) /\ PathClear(board, from, to)
          [] fig.fig_type = Bishop ->
                from # to /\ dc = dr /\ PathClear(board, from, to)
          [] fig.fig_type = Queen ->
                OnLine(from, to) /\ PathClear(board, from, to)
          [] OTHER -> FALSE

SquareAttacked(board, pos, by_color) ==
    \E p \in Positions : board.state[p].color = by_color /\ Attacks(board, p, pos)

KingSquare(board, color) ==
    CHOOSE p \in Positions : board.state[p] = Figure(King, color)

InCheck(board, color) == SquareAttacked(board, KingSquare(board, color), toggle(color))

CastlingLatch(game_state, color, king_side) ==
    IF color = White
    THEN (IF king_side THEN game_state.is_white_king_side_castling_still_allowed
          ELSE game_state.is_white_queen_side_castling_still_allowed)
    ELSE (IF king_side THEN game_state.is_black_king_side_castling_still_allowed
          ELSE game_state.is_black_queen_side_castling_still_allowed)

\* castling, given as the king moving onto its own rook
LegalCastling(game_state, from, to) ==
    LET color == game_state.turn_by
        board == game_state.board
        row == get_ground_row(color)
        king_side == Col(to) > Col(from)
        king_to == new_unchecked(IF king_side THEN 6 ELSE 2, row)
    IN  /\ board.state[from] = Figure(King, color)
        /\ board.state[to] = Figure(Rook, color)
        /\ from = new_unchecked(4, row)
        /\ to \in {new_unchecked(0, row), new_unchecked(7, row)}
        /\ CastlingLatch(game_state, color, king_side)
        /\ PathClear(board, from, to)
        /\ \A p \in {from, king_to} \cup Between(from, king_to) :
               ~SquareAttacked(board, p, toggle(color))

LegalPawnMove(game_state, from, to) ==
    LET color == game_state.turn_by
        board == game_state.board
        fwd == Forward(color)
    IN  \/ /\ Col(to) = Col(from)
           /\ Row(to) = Row(from) + fwd
           /\ board.state[to] = NoFigure
        \/ /\ Col(to) = Col(from)
           /\ Row(from) = (IF color = White THEN 1 ELSE 6)
           /\ Row(to) = Row(from) + 2 * fwd
           /\ board.state[to] = NoFigure
           /\ PathClear(board, from, to)
        \/ /\ Abs(Col(to) - Col(from)) = 1
           /\ Row(to) = Row(from) + fwd
           /\ \/ board.state[to].color = toggle(color)
              \/ to = game_state.en_passant_intercept_pos

\* a move that follows the figure's movement rules; no king is ever captured
PseudoLegal(game_state, next_move) ==
    LET from == next_move.from_to.from
        to == next_move.from_to.to
        board == game_state.board
        fig == board.state[from]
        last_row == IF game_state.turn_by = White THEN 7 ELSE 0
    IN  /\ fig.color = game_state.turn_by
        /\ board.state[to].fig_type # King
        /\ IF fig.fig_type = King /\ board.state[to] = Figure(Rook, fig.color)
           THEN next_move.promotion_type = NoPromotion
                /\ LegalCastling(game_state, from, to)
           ELSE /\ board.state[to].color # fig.color
                /\ IF fig.fig_type = Pawn
                   THEN /\ LegalPawnMove(game_state, from, to)
                        /\ (next_move.promotion_type # NoPromotion) <=> (Row(to) = last_row)
                   ELSE /\ Attacks(board, from, to)
                        /\ next_move.promotion_type = NoPromotion

\* a legal move: pseudo-legal, and the mover's king is not left in check
Legal(game_state, next_move) ==
    /\ PseudoLegal(game_state, next_move)
    /\ ~InCheck(BoardForIsCheck(game_state, next_move), game_state.turn_by)

AllMoves ==
    {[from_to |-> FromTo(from, to), promotion_type |-> pt] :
        from \in Positions, to \in Positions, pt \in PromotionTypes \cup {NoPromotion}}

LegalMoves(game_state) ==
    {m \in AllMoves : Legal(game_state, m)}

(***************************************************************************)
(* The game state machine: a GameState built by GameState::classic or by   *)
(* from_manual_config, and legal moves applied to it with do_move.         *)
(***************************************************************************)
VARIABLES
    game_state,     \* the current GameState (of a game, or of the replay of compress / decompress)
    last_move,      \* the MoveData the latest do_move of a game returned
    panicked,       \* whether a do_move call of a game did not return
    pc,             \* where the caller is: "play", "compress", "start", "decompress", "done"
    moves,          \* the moves compress has taken from its argument and not rejected
    legal,          \* whether every move it has taken was a legal move where it came
    log,            \* per move compress has taken, the last one applied or not:
                    \* what compress found and pushed
    encoded_moves,  \* the text: built by compress, or read so far by decompress
    chars_left,     \* the characters of the text decompress has not read yet
    chunk,          \* the characters the latest iteration of decompress read
    prev_state,     \* the GameState the latest iteration of compress / decompress started from
    compressed,     \* what compress returned
    moves_played,   \* the vector of MoveData decompress has built
    decompressed,   \* what decompress returned
    free,           \* how many moves / iterations left the scripted games
    target,         \* the argument of a function called on its own: the square the
                    \* resolver or is_check was asked about, the move, the configuration
    returned        \* what it returned

vars == <<game_state, last_move, panicked, pc, moves, legal, log, encoded_moves,
          chars_left, chunk, prev_state, compressed, moves_played, decompressed, free,
          target, returned>>

resolver_vars == <<target, returned>>

codec_vars == <<pc, moves, legal, log, encoded_moves, chars_left, chunk, prev_state,
                compressed, moves_played, decompressed, free, resolver_vars>>

\* the resolver not called yet
NoReach == [ok |-> FALSE, err |-> "None", origins |-> <<>>]

\* a Result not returned yet
NoResult == [kind |-> "None", err |-> "None"]
Ok == [kind |-> "Ok", err |-> "None"]
Err(err) == [kind |-> "Err", err |-> err]
Panic == [kind |-> "Panic", err |-> "None"]

\* the codec at rest
CodecIdle(at) ==
    /\ pc = at
    /\ moves = <<>>
    /\ legal = TRUE
    /\ log = <<>>
    /\ chars_left = <<>>
    /\ chunk = <<>>
    /\ prev_state = GameState_classic
    /\ compressed = NoResult
    /\ moves_played = <<>>
    /\ decompressed = NoResult
    /\ free = 0
    /\ target = NoPos
    /\ returned = NoReach

\* the longest game played from a start state
MaxPlies == 2

\* a FigureAndPosition, the square given by column and row
At(fig_type, color, column, row) ==
    [figure |-> Figure(fig_type, color), pos |-> new_unchecked(column, row)]

\* the arguments of from_manual_config the model starts from: positions of the
\* repository's tests, and some that reach the cases of interest at once
ManualConfigs ==
    { \* white / black: Ra1 Ke1 Rh1 ra8 ke8 rh8
      [turn_by |-> White, en_passant |-> NoPos,
       figures |-> <<At(Rook, White, 0, 0), At(King, White, 4, 0), At(Rook, White, 7, 0),
                     At(Rook, Black, 0, 7), At(King, Black, 4, 7), At(Rook, Black, 7, 7)>>],
      [turn_by |-> Black, en_passant |-> NoPos,
       figures |-> <<At(Rook, White, 0, 0), At(King, White, 4, 0), At(Rook, White, 7, 0),
                     At(Rook, Black, 0, 7), At(King, Black, 4, 7), At(Rook, Black, 7, 7)>>],
      \* white: Ke1 Rh1 Pa2 rh2 ke8
      [turn_by |-> White, en_passant |-> NoPos,
       figures |-> <<At(King, White, 4, 0), At(Rook, White, 7, 0), At(Pawn, White, 0, 1),
                     At(Rook, Black, 7, 1), At(King, Black, 4, 7)>>],
      \* white: Kb6 Pa7 nb8 kh6
      [turn_by |-> White, en_passant |-> NoPos,
       figures |-> <<At(King, White, 1, 5), At(Pawn, White, 0, 6),
                     At(Knight, Black, 1, 7), At(King, Black, 7, 5)>>],
      \* black: Ke2 pf2 ke8
      [turn_by |-> Black, en_passant |-> NoPos,
       figures |-> <<At(King, White, 4, 1), At(Pawn, Black, 5, 1), At(King, Black, 4, 7)>>],
      \* black: Ke2 pg4 Pf3 ke8
      [turn_by |-> Black, en_passant |-> NoPos,
       figures |-> <<At(King, White, 4, 1), At(Pawn, Black, 6, 3), At(Pawn, White, 5, 2),
                     At(King, Black, 4, 7)>>],
      \* white: Kb1 rh2 ph5 kg7, en passant h6
      [turn_by |-> White, en_passant |-> new_unchecked(7, 5),
       figures |-> <<At(King, White, 1, 0), At(Rook, Black, 7, 1), At(Pawn, Black, 7, 4),
                     At(King, Black, 6, 6)>>],
      \* white: Ka1 Pb5 pa6 pc5 ke8, en passant c6
      [turn_by |-> White, en_passant |-> new_unchecked(2, 5),
       figures |-> <<At(King, White, 0, 0), At(Pawn, White, 1, 4), At(Pawn, Black, 0, 5),
                     At(Pawn, Black, 2, 4), At(King, Black, 4, 7)>>],
      \* black: Kh1 Pd4 pe4 pc4 ka8, en passant d3
      [turn_by |-> Black, en_passant |-> new_unchecked(3, 2),
       figures |-> <<At(King, White, 7, 0), At(Pawn, White, 3, 3), At(Pawn, Black, 4, 3),
                     At(Pawn, Black, 2, 3), At(King, Black, 0, 7)>>],
      \* white: Ke2 Re1 ke8 (a king step uncovers the rook)
      [turn_by |-> White, en_passant |-> NoPos,
       figures |-> <<At(King, White, 4, 1), At(Rook, White, 4, 0), At(King, Black, 4, 7)>>],
      \* black: Kh1 Nh4 ba8 kd5 (a king step uncovers the bishop)
      [turn_by |-> Black, en_passant |-> NoPos,
       figures |-> <<At(King, White, 7, 0), At(Bishop, Black, 0, 7), At(King, Black, 3, 4),
                     At(Knight, White, 7, 3)>>],
      \* white: Ke1 Rh1 kf8 (castling gives check)
      [turn_by |-> White, en_passant |-> NoPos,
       figures |-> <<At(King, White, 4, 0), At(Rook, White, 7, 0), At(King, Black, 5, 7)>>],
      \* rejected: two white kings
      [turn_by |-> White, en_passant |-> NoPos,
       figures |-> <<At(King, White, 4, 0), At(King, White, 3, 0), At(King, Black, 4, 7)>>],
      \* rejected: en passant h6 without the pawn on h5
      [turn_by |-> White, en_passant |-> new_unchecked(7, 5),
       figures |-> <<At(King, White, 1, 0), At(King, Black, 6, 6)>>] }

ManualResult(config) ==
    from_manual_config(config.turn_by, config.en_passant, config.figures)

StartStates ==
    {GameState_classic}
    \cup {ManualResult(config).game_state :
            config \in {c \in ManualConfigs : ManualResult(c).ok}}

Init ==
    /\ game_state \in StartStates
    /\ last_move = NoMoveData
    /\ panicked = FALSE
    /\ CodecIdle("play")
    /\ encoded_moves = <<>>

\* the caller keeps what do_move returned
DoMoveReturn(result) ==
    /\ game_state' = result.game_state
    /\ last_move' = result.move_data
    /\ UNCHANGED panicked

\* one call of do_move with a legal move
DoMove(next_move) ==
    /\ pc = "play"
    /\ ~panicked
    /\ game_state.moves_played_data.half_moves_played < MaxPlies
    /\ Legal(game_state, next_move)
    /\ IF do_move_panics(game_state, next_move)
       THEN /\ panicked' = TRUE
            /\ UNCHANGED <<game_state, last_move>>
       ELSE DoMoveReturn(do_move(game_state, next_move))
    /\ UNCHANGED codec_vars

Next ==
    \E from \in Positions :
        /\ game_state.board.state[from].color = game_state.turn_by
        /\ \E to \in Positions, pt \in PromotionTypes \cup {NoPromotion} :
               DoMove([from_to |-> FromTo(from, to), promotion_type |-> pt])

Spec == Init /\ [][Next]_vars

(***************************************************************************)
(* Properties of the game state machine                                    *)
(***************************************************************************)
\* the king square the state caches for a colour
king_pos_of(state, color) ==
    IF color = White THEN state.white_king_pos ELSE state.black_king_pos

\* C8: in every state reached from the classic start or an accepted manual
\* configuration by legal moves, white_king_pos holds a white king,
\* black_king_pos holds a black king, no other square holds a king, and no
\* do_move call has panicked (its debug assertions included).
C8_KingCache ==
    /\ ~panicked
    /\ get_figure(game_state.board, game_state.white_king_pos) = Figure(King, White)
    /\ get_figure(game_state.board, game_state.black_king_pos) = Figure(King, Black)
    /\ \A pos \in Positions :
           get_figure(game_state.board, pos).fig_type = King
               => pos \in {game_state.white_king_pos, game_state.black_king_pos}

\* a castling has just moved the king, and the cache has followed it
C8_Witness ==
    /\ last_move.move_type.tag = "Castling"
    /\ king_pos_of(game_state, toggle(game_state.turn_by)) = last_move.move_type.king_move.to
    /\ last_move.move_type.king_move.to # last_move.given_from_to.to

\* C9: the is_check flag of the record do_move returned equals is_check on the
\* new board at the king square of the side that is about to move.
C9_IsCheckFlag ==
    last_move # NoMoveData
        => last_move.is_check
               = is_check(game_state.board, king_pos_of(game_state, game_state.turn_by))

\* the move just made was a pawn move over two ranks
was_double_step ==
    /\ last_move.figure_moved = Pawn
    /\ get_row_distance(last_move.given_from_to.from, last_move.given_from_to.to) = 2

\* the square between origin and destination of the move just made
middle_square ==
    new_unchecked(Col(last_move.given_from_to.to),
                  (Row(last_move.given_from_to.from) + Row(last_move.given_from_to.to)) \div 2)

Latches(state) ==
    << state.is_white_queen_side_castling_still_allowed,
       state.is_white_king_side_castling_still_allowed,
       state.is_black_queen_side_castling_still_allowed,
       state.is_black_king_side_castling_still_allowed >>

\* C11: no do_move turns a castling latch from disallowed to allowed, so a
\* latch that is disallowed in a state is disallowed in every later state.
C11_LatchesMonotone ==
    [][\A i \in 1..4 : ~Latches(game_state)[i] => ~Latches(game_state')[i]]_vars

\* two moves have been made, the white king has not moved, and one white
\* latch is disallowed while the other is still allowed
C11_Witness ==
    /\ game_state.moves_played_data.half_moves_played = 2
    /\ game_state.white_king_pos = new_unchecked(4, 0)
    /\ ~game_state.is_white_queen_side_castling_still_allowed
    /\ game_state.is_white_king_side_castling_still_allowed

\* the colour and the rook home square of each latch, in the order of Latches
LatchColor == <<White, White, Black, Black>>
LatchRookHome ==
    <<new_unchecked(0, 0), new_unchecked(7, 0), new_unchecked(0, 7), new_unchecked(7, 7)>>

\* the move from_to, made in state, is one that disallows latch i
DisallowsLatch(state, from_to, i) ==
    \/ from_to.from = LatchRookHome[i]
    \/ from_to.to = LatchRookHome[i]
    \/ get_figure(state.board, from_to.from) = Figure(King, LatchColor[i])

\* C12: a do_move disallows a latch when the origin or the destination of the
\* move is the home square of that latch's rook (a1, h1, a8, h8) or the moving
\* figure is the king of that colour, castling included; every other latch
\* keeps the value it had before the move.
C12_LatchCases ==
    [][game_state' # game_state =>
          \A i \in 1..4 :
              Latches(game_state')[i]
                  = (/\ Latches(game_state)[i]
                     /\ ~DisallowsLatch(game_state, last_move'.given_from_to, i))]_vars

\* a castling has disallowed both latches of its colour and left those of
\* the other colour allowed
C12_Witness ==
    /\ last_move.move_type.tag = "Castling"
    /\ game_state.turn_by = Black
    /\ Latches(game_state) = <<FALSE, FALSE, TRUE, TRUE>>

\* the squares of a board that hold a figure
NonEmpty(board) == {pos \in Positions : get_figure(board, pos) # NoFigure}

\* the move of the record move_data, made in state, takes a figure off the
\* board: it is an en-passant capture, or no castling and onto a figure
Captures(state, move_data) ==
    \/ move_data.move_type.tag = "EnPassant"
    \/ /\ move_data.move_type.tag # "Castling"
       /\ ~is_empty(state.board, move_data.given_from_to.to)

Made(next_move) ==
    do_move(game_state, next_move) = [game_state |-> game_state', move_data |-> last_move']

\* the moves of the king of the side to move onto a rook of its colour
KingOntoRookMoves(state) ==
    {Move_new(FromTo(from, to)) :
        from \in {pos \in Positions :
                     get_figure(state.board, pos) = Figure(King, state.turn_by)},
        to \in {pos \in Positions :
                   get_figure(state.board, pos) = Figure(Rook, state.turn_by)}}

\* what C14 tells of the state and the record after next_move, a king move
\* onto a rook of its colour, made by the side color
CastledAsGiven(next_move, color, state, move_data) ==
    LET from == next_move.from_to.from
        to == next_move.from_to.to
        king_side == Col(to) > Col(from)
        king_to == new_unchecked(IF king_side THEN 6 ELSE 2, Row(to))
        rook_to == new_unchecked(IF king_side THEN 5 ELSE 3, Row(to))
    IN  /\ is_empty(state.board, from)
        /\ is_empty(state.board, to)
        /\ get_figure(state.board, king_to) = Figure(King, color)
        /\ get_figure(state.board, rook_to) = Figure(Rook, color)
        /\ move_data.move_type.tag = "Castling"
        /\ move_data.move_type.castling_type
               = (IF king_side THEN "KingSide" ELSE "QueenSide")
        /\ move_data.move_type.king_move = FromTo(from, king_to)
        /\ move_data.move_type.rook_move = FromTo(to, rook_to)
        /\ move_data.given_from_to = next_move.from_to
        /\ king_pos_of(state, color) = king_to

\* C14: a do_move of a king onto a rook of its colour empties both squares,
\* sets the king on column 6 and the rook on column 5 of the rook's rank when
\* the rook stood on the higher column, else on columns 2 and 3; the record
\* has the shape Castling with that side, the king's move from the given
\* origin and the rook's move from the given destination to those squares,
\* the given origin and destination as they came in, and the cached king
\* square is the king's new square.
C14_Castling ==
    [][\A next_move \in KingOntoRookMoves(game_state) :
          Made(next_move)
              => CastledAsGiven(next_move, game_state.turn_by, game_state', last_move')]_vars

\* black has castled queen-side
C14_Witness ==
    /\ last_move.move_type.tag = "Castling"
    /\ last_move.move_type.castling_type = "QueenSide"
    /\ last_move.given_from_to = FromTo(new_unchecked(4, 7), new_unchecked(0, 7))
    /\ get_figure(game_state.board, new_unchecked(2, 7)) = Figure(King, Black)
    /\ get_figure(game_state.board, new_unchecked(3, 7)) = Figure(Rook, Black)

\* the moves without promotion kind of a pawn of the side to move, over less
\* than two ranks, onto the en-passant target of the state
OntoEnPassantTargetMoves(state) ==
    {Move_new(FromTo(from, state.en_passant_intercept_pos)) :
        from \in {pos \in Positions :
                     /\ state.en_passant_intercept_pos # NoPos
                     /\ get_figure(state.board, pos) = Figure(Pawn, state.turn_by)
                     /\ get_row_distance(pos, state.en_passant_intercept_pos) < 2}}

\* C15: a do_move of a pawn, without promotion kind and over less than two
\* ranks, onto the en-passant target sets the pawn on the target, empties the
\* origin and the square on the target's column and the origin's rank, leaves
\* every other square as it was, and returns a record of the shape EnPassant
\* that names that square, with a pawn as the captured kind.
C15_EnPassant ==
    [][\A next_move \in OntoEnPassantTargetMoves(game_state) :
          Made(next_move) =>
              LET from == next_move.from_to.from
                  to == next_move.from_to.to
                  captured_pawn_pos == new_unchecked(Col(to), Row(from))
              IN  /\ get_figure(game_state'.board, to) = Figure(Pawn, game_state.turn_by)
                  /\ is_empty(game_state'.board, from)
                  /\ is_empty(game_state'.board, captured_pawn_pos)
                  /\ get_figure(game_state.board, captured_pawn_pos)
                         = Figure(Pawn, toggle(game_state.turn_by))
                  /\ \A pos \in Positions \ {from, to, captured_pawn_pos} :
                         get_figure(game_state'.board, pos) = get_figure(game_state.board, pos)
                  /\ last_move'.move_type = MoveType_EnPassant(captured_pawn_pos)
                  /\ last_move'.figure_captured = Pawn
                  /\ last_move'.figure_moved = Pawn
                  /\ last_move'.given_from_to = next_move.from_to]_vars

\* black has captured the pawn on d4 from e4 by way of d3
C15_Witness ==
    /\ last_move.move_type.tag = "EnPassant"
    /\ last_move.given_from_to = FromTo(new_unchecked(4, 3), new_unchecked(3, 2))
    /\ get_figure(game_state.board, new_unchecked(3, 2)) = Figure(Pawn, Black)
    /\ is_empty(game_state.board, new_unchecked(3, 3))

\* the squares that hold a pawn of a colour
PawnSquares(board, color) ==
    {pos \in Positions : get_figure(board, pos) = Figure(Pawn, color)}

\* the moves with a promotion kind of a pawn of the side to move, one rank
\* ahead and at most one column aside
PromotionMoves(state) ==
    UNION {{Move_new_with_promotion(FromTo(from, to), promotion_type) :
               to \in {pos \in Positions :
                          /\ Row(pos) = Row(from) + Forward(state.turn_by)
                          /\ Abs(Col(pos) - Col(from)) <= 1},
               promotion_type \in PromotionTypes} :
           from \in PawnSquares(state.board, state.turn_by)}

\* C16: after a do_move of a pawn with a promotion kind the destination holds
\* a figure of that kind in the mover's colour, the origin is empty, the
\* mover's pawns are those of before without the one that moved, and the
\* record has the shape PawnPromotion with that kind, Pawn as the moved kind
\* and as the captured kind that of the figure that stood on the destination,
\* if any.
C16_Promotion ==
    [][\A next_move \in PromotionMoves(game_state) :
          Made(next_move) =>
              LET from == next_move.from_to.from
                  to == next_move.from_to.to
                  color == game_state.turn_by
              IN  /\ next_move.promotion_type \in {Queen, Rook, Knight, Bishop}
                  /\ get_figure(game_state'.board, to)
                         = Figure(next_move.promotion_type, color)
                  /\ is_empty(game_state'.board, from)
                  /\ PawnSquares(game_state'.board, color)
                         = PawnSquares(game_state.board, color) \ {from}
                  /\ last_move'.move_type = MoveType_PawnPromotion(next_move.promotion_type)
                  /\ last_move'.figure_moved = Pawn
                  /\ last_move'.figure_captured = get_figure(game_state.board, to).fig_type
                  /\ last_move'.given_from_to = next_move.from_to]_vars

\* the black pawn has stepped from f2 to f1 and become a knight
C16_Witness ==
    /\ last_move.move_type.tag = "PawnPromotion"
    /\ last_move.move_type.promoted_to = Knight
    /\ last_move.figure_captured = "None"
    /\ last_move.given_from_to = FromTo(new_unchecked(5, 1), new_unchecked(5, 0))
    /\ get_figure(game_state.board, new_unchecked(5, 0)) = Figure(Knight, Black)

\* the step moved a pawn of the side to move: one of its pawns left its square
PawnLeft(before, after) ==
    PawnSquares(before.board, before.turn_by) # PawnSquares(after.board, before.turn_by)

\* the step took a figure off the board
FigureTaken(before, after) ==
    Cardinality(NonEmpty(after.board)) < Cardinality(NonEmpty(before.board))

\* C17: half_moves_played_without_progress is 0 in a state no move has been
\* made in; a do_move sets it to 0 when the move is a pawn's (step, capture,
\* en passant, promotion) or takes a figure, and else to one more than it was;
\* so a castling counts one up.
C17_WithoutProgress ==
    /\ [](last_move = NoMoveData
            => game_state.moves_played_data.half_moves_played_without_progress = 0)
    /\ [][game_state' # game_state =>
             /\ game_state'.moves_played_data.half_moves_played_without_progress
                    = (IF PawnLeft(game_state, game_state') \/ FigureTaken(game_state, game_state')
                       THEN 0
                       ELSE game_state.moves_played_data.half_moves_played_without_progress + 1)
             /\ last_move'.move_type.tag = "Castling"
                    => game_state'.moves_played_data.half_moves_played_without_progress
                           = game_state.moves_played_data.half_moves_played_without_progress + 1]_vars

\* a castling has been the second move in a row without progress
C17_Witness ==
    /\ last_move.move_type.tag = "Castling"
    /\ game_state.moves_played_data.half_moves_played_without_progress = 2

RECURSIVE SplitAt(_, _, _)
SplitAt(text, i, field) ==
    IF i > Len(text) THEN <<field>>
    ELSE IF text[i] = " " THEN <<field>> \o SplitAt(text, i + 1, <<>>)
    ELSE SplitAt(text, i + 1, Append(field, text[i]))

FenFields(state) == SplitAt(get_fen(state), 1, <<>>)

\* the number a text of digits stands for; -1 where it is none
RECURSIVE NumberOf(_, _, _)
NumberOf(text, i, value) ==
    IF i > Len(text) THEN (IF text = <<>> THEN 0 - 1 ELSE value)
    ELSE IF \E d \in 0..9 : DigitChars[d + 1] = text[i]
    THEN NumberOf(text, i + 1,
             10 * value + (CHOOSE d \in 0..9 : DigitChars[d + 1] = text[i]))
    ELSE 0 - 1

\* the letters of the castlings still allowed, or the dash
CastlingField(state) ==
    LET letters ==
            (IF state.is_white_king_side_castling_still_allowed THEN <<"K">> ELSE <<>>)
            \o (IF state.is_white_queen_side_castling_still_allowed THEN <<"Q">> ELSE <<>>)
            \o (IF state.is_black_king_side_castling_still_allowed THEN <<"k">> ELSE <<>>)
            \o (IF state.is_black_queen_side_castling_still_allowed THEN <<"q">> ELSE <<>>)
    IN  IF letters = <<>> THEN <<"-">> ELSE letters

\* the name of a square
SquareName(pos) ==
    <<ColumnChars[Col(pos) + 1], DigitChars[Row(pos) + 2]>>

\* the characters of the placement field
PlacementChars ==
    {"P", "R", "N", "B", "Q", "K", "p", "r", "n", "b", "q", "k", "/",
     "1", "2", "3", "4", "5", "6", "7", "8"}

\* C26: in every state of a game get_fen is six fields with a space between
\* them: the placement, w or b for the side to move, the letters of the
\* castlings still allowed in the order K, Q, k, q or a dash, the name of the
\* en-passant square or a dash, the half moves without progress, and the
\* round.
C26_Fen ==
    LET fields == FenFields(game_state)
    IN  /\ Len(fields) = 6
        /\ fields[1] = get_fen_part1(game_state.board)
        /\ \A i \in 1..Len(fields[1]) : fields[1][i] \in PlacementChars
        /\ fields[2] = (IF game_state.turn_by = White THEN <<"w">> ELSE <<"b">>)
        /\ fields[3] = CastlingField(game_state)
        /\ fields[4] = (IF game_state.en_passant_intercept_pos = NoPos THEN <<"-">>
                        ELSE SquareName(game_state.en_passant_intercept_pos))
        /\ NumberOf(fields[5], 1, 0)
               = game_state.moves_played_data.half_moves_played_without_progress
        /\ NumberOf(fields[6], 1, 0) = current_round(game_state.moves_played_data)

\* black to move, some castlings lost, an en-passant square set
C26_Witness ==
    /\ game_state.turn_by = Black
    /\ game_state.en_passant_intercept_pos # NoPos
    /\ CastlingField(game_state) \notin {<<"-">>, <<"K", "Q", "k", "q">>}
    /\ Len(FenFields(game_state)) = 6

\* the home square of the king of each latch, in the order of Latches
LatchKingHome ==
    <<WHITE_KING_STARTING_POS, WHITE_KING_STARTING_POS,
      BLACK_KING_STARTING_POS, BLACK_KING_STARTING_POS>>

\* C32: in a game of legal moves from the classic start or an accepted
\* configuration, a castling latch that is still allowed has the king of its
\* colour on e1 / e8 and a rook of its colour on the latch's corner.
C32_LatchHasKingAndRook ==
    \A i \in 1..4 :
        Latches(game_state)[i] =>
            /\ king_pos_of(game_state, LatchColor[i]) = LatchKingHome[i]
            /\ get_figure(game_state.board, LatchKingHome[i]) = Figure(King, LatchColor[i])
            /\ get_figure(game_state.board, LatchRookHome[i]) = Figure(Rook, LatchColor[i])

\* a black rook has left h8 for a capture on h1: of either colour the
\* queen-side latch is still allowed and the king-side latch is not
C32_Witness ==
    /\ game_state.moves_played_data.half_moves_played = 1
    /\ get_figure(game_state.board, new_unchecked(7, 7)) = NoFigure
    /\ get_figure(game_state.board, new_unchecked(7, 0)) = Figure(Rook, Black)
    /\ Latches(game_state) = <<TRUE, FALSE, TRUE, FALSE>>

(***************************************************************************)
(* The codec: compress replays its moves on a classic GameState and builds *)
(* the text; decompress replays a text.  One step is one iteration of the  *)
(* loop of compress or of decompress.  The moves follow a game of the      *)
(* repository's tests (compression/mod.rs) and leave it for at most        *)
(* MaxFree arbitrary moves; likewise the texts.                            *)
(***************************************************************************)
\* how many moves (iterations) may leave the scripted games (texts)
MaxFree == 1

Mv(from_column, from_row, to_column, to_row) ==
    Move_new(FromTo(new_unchecked(from_column, from_row),
                    new_unchecked(to_column, to_row)))

\* a2a4, h7h6, a4a5, b7b5, a5b6, h6h5, b6c7, h5h4, g2g3, h4g3, c7d8Q
PawnGame ==
    << Mv(0, 1, 0, 3), Mv(7, 6, 7, 5), Mv(0, 3, 0, 4), Mv(1, 6, 1, 4), Mv(0, 4, 1, 5),
       Mv(7, 5, 7, 4), Mv(1, 5, 2, 6), Mv(7, 4, 7, 3), Mv(6, 1, 6, 2), Mv(7, 3, 6, 2),
       Move_new_with_promotion(FromTo(new_unchecked(2, 6), new_unchecked(3, 7)), Queen) >>

\* d2d3, g7g6, c1e3, f8g7, b1c3, g8f6, d1d2, e8h8, e1a1
CastlingGame ==
    << Mv(3, 1, 3, 2), Mv(6, 6, 6, 5), Mv(2, 0, 4, 2), Mv(5, 7, 6, 6), Mv(1, 0, 2, 2),
       Mv(6, 7, 5, 5), Mv(3, 0, 3, 1), Mv(4, 7, 7, 7), Mv(4, 0, 0, 0) >>

Games == {PawnGame, CastlingGame}

\* "Y 3v g h p n y f W W 7Q"
PawnGameText ==
    <<"Y", "3", "v", "g", "h", "p", "n", "y", "f", "W", "W", "7", "Q">>

\* "T u CU 2 BS -t DL 8_ EA"
CastlingGameText ==
    <<"T", "u", "C", "U", "2", "B", "S", "-", "t", "D", "L", "8", "_", "E", "A">>

Texts == {PawnGameText, CastlingGameText}

\* texts with a character that is not url-safe
BadTexts == {<<"+">>, <<"Y", "=">>, <<"K", " ", "S">>, <<"a", "/", "Q">>}

IsPrefix(a, b) == Len(a) <= Len(b) /\ SubSeq(b, 1, Len(a)) = a

\* a king of the side to move on the origin, a rook of that side on the destination
OwnCastling(state, from_to) ==
    /\ get_figure(state.board, from_to.from) = Figure(King, state.turn_by)
    /\ get_figure(state.board, from_to.to) = Figure(Rook, state.turn_by)

InitCodec ==
    /\ game_state = GameState_classic
    /\ last_move = NoMoveData
    /\ panicked = FALSE
    /\ CodecIdle("compress")
    /\ encoded_moves = <<>>

\* the moves that may leave the games: from any square to any square, and
\* with any promotion kind where the origin holds a figure of the side to move
FreeMoves ==
    {Move_new(FromTo(from, to)) : from \in Positions, to \in Positions}
    \cup {Move_new_with_promotion(FromTo(from, to), promotion_type) :
            from \in {pos \in Positions :
                         contains_color(game_state.board, pos, game_state.turn_by)},
            to \in Positions, promotion_type \in PromotionTypes}

\* the moves the argument of compress may go on with
NextMoves ==
    IF pc # "compress" THEN {}
    ELSE {g[Len(moves) + 1] :
             g \in {h \in Games : Len(h) > Len(moves) /\ IsPrefix(moves, h)}}
         \cup (IF free < MaxFree THEN FreeMoves ELSE {})

\* what an iteration of the loop of compress leaves behind; reach is what the
\* resolver returns for the destination of the move
CompressApply(next_move, it, reach) ==
    /\ legal' = (legal /\ Legal(game_state, next_move))
    /\ log' = Append(log,
           [legal_before |-> legal,
            castling |-> OwnCastling(game_state, next_move.from_to),
            candidates |-> IF reach.ok THEN Len(reach.origins) ELSE 0,
            origin_found |-> reach.ok /\ Contains(reach.origins, next_move.from_to.from),
            chunk |-> it.chunk])
    /\ prev_state' = game_state
    /\ game_state' = it.game_state
    /\ moves' = IF it.outcome = "Err" THEN moves ELSE Append(moves, next_move)
    /\ IF it.outcome = "Continue"
       THEN /\ encoded_moves' = encoded_moves \o it.chunk
            /\ UNCHANGED <<pc, compressed>>
       ELSE /\ pc' = "done"
            /\ compressed' = IF it.outcome = "Err" THEN Err(it.err) ELSE Panic
            /\ UNCHANGED encoded_moves

\* one iteration of the loop of compress
CompressStep(next_move) ==
    /\ pc = "compress"
    /\ LET scripted == \E g \in Games : IsPrefix(Append(moves, next_move), g)
       IN  /\ scripted \/ free < MaxFree
           /\ free' = IF scripted THEN free ELSE free + 1
    /\ CompressApply(next_move, compress_iteration(game_state, next_move),
           get_positions_to_reach_target_from(next_move.from_to.to, game_state))
    /\ UNCHANGED <<last_move, panicked, chars_left, chunk, moves_played, decompressed>>
    /\ UNCHANGED resolver_vars

\* the moves are used up: compress returns the text, and the caller hands it to decompress
CompressReturn ==
    /\ pc = "compress"
    /\ pc' = "start"
    /\ compressed' = Ok
    /\ UNCHANGED <<game_state, last_move, panicked, moves, legal, log, encoded_moves,
                   chars_left, chunk, prev_state, moves_played, decompressed, free>>
    /\ UNCHANGED resolver_vars

\* the head of decompress: the check of the text, and the fresh GameState
DecompressStart ==
    /\ pc = "start"
    /\ IF assert_is_url_safe_base64(encoded_moves)
       THEN /\ pc' = "decompress"
            /\ decompressed' = NoResult
       ELSE /\ pc' = "done"
            /\ decompressed' = Err("IllegalFormat")
    /\ game_state' = GameState_classic
    /\ prev_state' = GameState_classic
    /\ chars_left' = IF compressed = Ok THEN encoded_moves ELSE <<>>
    /\ UNCHANGED <<last_move, panicked, moves, legal, log, encoded_moves, chunk,
                   compressed, moves_played, free>>
    /\ UNCHANGED resolver_vars

\* what an iteration of the loop of decompress leaves behind
DecompressApply(it, text) ==
    /\ prev_state' = game_state
    /\ chunk' = SubSeq(text, 1, it.consumed)
    /\ chars_left' = SubSeq(text, it.consumed + 1, Len(text))
    /\ game_state' = it.game_state
    /\ IF it.outcome = "Continue"
       THEN /\ moves_played' = Append(moves_played, it.move_data)
            /\ UNCHANGED <<pc, decompressed>>
       ELSE /\ pc' = "done"
            /\ decompressed' = CASE it.outcome = "Break" -> Ok
                                 [] it.outcome = "Err" -> Err(it.err)
                                 [] it.outcome = "Panic" -> Panic
            /\ UNCHANGED moves_played
    /\ UNCHANGED <<last_move, panicked, moves, legal, log, compressed>>
    /\ UNCHANGED resolver_vars

\* one iteration of the loop of decompress on the text compress returned
DecompressStep ==
    /\ pc = "decompress"
    /\ DecompressApply(decompress_iteration(game_state, chars_left), chars_left)
    /\ UNCHANGED <<encoded_moves, free>>

NextCodec ==
    \/ \E next_move \in NextMoves : CompressStep(next_move)
    \/ CompressReturn
    \/ DecompressStart
    \/ DecompressStep

SpecCodec == InitCodec /\ [][NextCodec]_vars

(***************************************************************************)
(* decompress on any text: the characters are chosen as decompress reads   *)
(* them, one iteration's worth at a time.                                  *)
(***************************************************************************)
InitDecode ==
    /\ game_state = GameState_classic
    /\ last_move = NoMoveData
    /\ panicked = FALSE
    /\ CodecIdle("start")
    /\ encoded_moves \in {<<>>} \cup BadTexts

\* the texts, and what an iteration that ran off the end of one of them goes
\* on with
Longer(state, texts, characters) ==
    texts \cup {Append(text, character) :
                  text \in {t \in texts : decompress_iteration(state, t).truncated},
                  character \in characters}

\* the characters tried after the squares of a move: the four letters, and
\* others of each kind
AfterSquares == {"Q", "R", "N", "B", "K", "A", "q", "5", "_"}

\* what an iteration may find of the text, from one character to all it reads;
\* where it reads past the last of them, the text ends there
Lookaheads(state) ==
    Longer(state,
        Longer(state, {<<character>> : character \in UrlSafeChars}, UrlSafeChars),
        AfterSquares)

\* the most characters one iteration reads: two squares and a promotion kind
MaxRead == 2 + 1

\* the same, of the texts of the games
ScriptedReads(state) ==
    {read \in {SubSeq(text, Len(encoded_moves) + 1, Len(encoded_moves) + n) :
                  text \in {t \in Texts : IsPrefix(encoded_moves, t)},
                  n \in 0..MaxRead} :
        /\ read # <<>>
        /\ decompress_iteration(state, read).consumed = Len(read)}

\* what the next iteration may find
Reads ==
    IF pc # "decompress" THEN {}
    ELSE IF free < MaxFree THEN Lookaheads(game_state)
    ELSE ScriptedReads(game_state)

\* one iteration of the loop of decompress that finds `read` of the text
ReadStep(read) ==
    /\ pc = "decompress"
    /\ LET scripted == \E text \in Texts : IsPrefix(encoded_moves \o read, text)
       IN  /\ scripted \/ free < MaxFree
           /\ free' = IF scripted THEN free ELSE free + 1
    /\ encoded_moves' = encoded_moves \o read
    /\ DecompressApply(decompress_iteration(game_state, read), read)

\* the iteration that finds the text at its end
ReadEnd ==
    /\ pc = "decompress"
    /\ DecompressApply(decompress_iteration(game_state, <<>>), <<>>)
    /\ UNCHANGED <<encoded_moves, free>>

NextDecode ==
    \/ DecompressStart
    \/ \E read \in Reads : ReadStep(read)
    \/ ReadEnd

SpecDecode == InitDecode /\ [][NextDecode]_vars

(***************************************************************************)
(* The resolver on its own: get_positions_to_reach_target_from is called   *)
(* with a square of the board, on positions from_manual_config accepts.    *)
(***************************************************************************)
\* positions with every kind of figure on either side, the position of the
\* resolver's test, and the two en-passant positions of the games
ResolverConfigs ==
    { \* white: Qc2 Nb3 Nb5 Nc6 Ne6 nf5 Nf3 Ne2 Kh1 ke8
      [turn_by |-> White, en_passant |-> NoPos,
       figures |-> <<At(Queen, White, 2, 1), At(Knight, White, 1, 2), At(Knight, White, 1, 4),
                     At(Knight, White, 2, 5), At(Knight, White, 4, 5), At(Knight, Black, 5, 4),
                     At(Knight, White, 5, 2), At(Knight, White, 4, 1), At(King, White, 7, 0),
                     At(King, Black, 4, 7)>>] }
    \cup
    { \* white / black: Ra1 Qd1 Ke1 Pa2 Pg2 Nf3 Bc4 Pe4 pd5 nc6 ph6 pf7 rd8 ke8 bg7 qh4
      [turn_by |-> color, en_passant |-> NoPos,
       figures |-> <<At(Rook, White, 0, 0), At(Queen, White, 3, 0), At(King, White, 4, 0),
                     At(Pawn, White, 0, 1), At(Pawn, White, 6, 1), At(Knight, White, 5, 2),
                     At(Bishop, White, 2, 3), At(Pawn, White, 4, 3), At(Pawn, Black, 3, 4),
                     At(Knight, Black, 2, 5), At(Pawn, Black, 7, 5), At(Pawn, Black, 5, 6),
                     At(Rook, Black, 3, 7), At(King, Black, 4, 7), At(Bishop, Black, 6, 6),
                     At(Queen, Black, 7, 3)>>] : color \in Colors }
    \cup {config \in ManualConfigs : config.en_passant \in {new_unchecked(2, 5), new_unchecked(3, 2)}}

\* the figures added to a position, one at a time
PlacedFigures ==
    {Figure(fig_type, color) : fig_type \in FigureTypes \ {King}, color \in Colors}

\* a position, and the position with one more figure on any square
Placements(config) ==
    {config}
    \cup {[config EXCEPT !.figures = Append(config.figures, [figure |-> figure, pos |-> pos])] :
            figure \in PlacedFigures, pos \in Positions}

ResolverStates ==
    {GameState_classic}
    \cup
    {ManualResult(config).game_state :
        config \in {c \in UNION {Placements(b) : b \in ResolverConfigs} : ManualResult(c).ok}}

InitResolver ==
    /\ game_state \in ResolverStates
    /\ last_move = NoMoveData
    /\ panicked = FALSE
    /\ CodecIdle("resolve")
    /\ encoded_moves = <<>>

\* the call of the resolver: one per position, as a second call returns what
\* the first returned
Resolve(square) ==
    /\ pc = "resolve"
    /\ target = NoPos
    /\ target' = square
    /\ returned' = get_positions_to_reach_target_from(square, game_state)
    /\ UNCHANGED <<game_state, last_move, panicked, pc, moves, legal, log, encoded_moves,
                   chars_left, chunk, prev_state, compressed, moves_played, decompressed,
                   free>>

NextResolver == \E square \in Positions : Resolve(square)

SpecResolver == InitResolver /\ [][NextResolver]_vars

(***************************************************************************)
(* Properties of the resolver                                              *)
(***************************************************************************)
\* the resolver was called with a square the side to move does not stand on
Resolved ==
    /\ target # NoPos
    /\ ~contains_color(game_state.board, target, game_state.turn_by)

\* C19: every square the resolver returns for a target the side to move does
\* not stand on holds a figure of the side to move: never an empty square,
\* never a figure of the other colour.
C19_OriginsHoldMovers ==
    Resolved =>
        \A i \in 1..Len(returned.origins) :
            /\ game_state.board.state[returned.origins[i]] # NoFigure
            /\ game_state.board.state[returned.origins[i]].color = game_state.turn_by

\* the resolver returned squares on a line, a knight's and a pawn's square at once
C19_Witness ==
    /\ Resolved
    /\ returned.ok
    /\ \E i, j, k \in 1..Len(returned.origins) :
           /\ game_state.board.state[returned.origins[i]].fig_type = Pawn
           /\ game_state.board.state[returned.origins[j]].fig_type = Knight
           /\ game_state.board.state[returned.origins[k]].fig_type \in {Rook, Bishop, Queen}

\* no pawn stands on the first or the last row
NoPawnOnEndRows(board) ==
    \A pos \in Positions :
        board.state[pos].fig_type = Pawn => Row(pos) \notin {0, 7}

\* the figure on from is of the side to move, and moves as its kind moves from
\* there to the square to, whatever that does to its own king
RawReach(state, from, to) ==
    /\ state.board.state[from].color = state.turn_by
    /\ IF state.board.state[from].fig_type = Pawn
       THEN LegalPawnMove(state, from, to)
       ELSE Attacks(state.board, from, to)

\* the squares of a vector
Squares(vec) == {vec[i] : i \in 1..Len(vec)}

\* the figure on pos shields its own king from a rook, bishop or queen of the
\* other side
Pinned(state, pos) ==
    /\ state.board.state[pos].color = state.turn_by
    /\ state.board.state[pos].fig_type # King
    /\ ~InCheck(state.board, state.turn_by)
    /\ InCheck(set_figure(state.board, pos, NoFigure), state.turn_by)

\* C20: on a position without pawns on the first and last row, for a target
\* the side to move does not stand on, the resolver returns exactly the
\* squares of the figures of the side to move whose movement reaches the
\* target: rook, bishop and queen along a free line, king next to it, knight
\* a jump away, pawn one step or a double step from its start row behind an
\* empty target, pawn diagonally behind a figure of the other side or the
\* en-passant square. A pinned figure is among them.
C20_ExactOrigins ==
    (Resolved /\ NoPawnOnEndRows(game_state.board)) =>
        /\ returned.ok
        /\ Squares(returned.origins)
               = {from \in Positions : RawReach(game_state, from, target)}

\* the resolver returned a pinned figure
C20_Witness ==
    /\ Resolved
    /\ NoPawnOnEndRows(game_state.board)
    /\ returned.ok
    /\ \E i \in 1..Len(returned.origins) : Pinned(game_state, returned.origins[i])

\* C37: the vector the resolver returns holds no square twice, for every
\* position and every target the side to move does not stand on.
C37_NoOriginTwice ==
    (Resolved /\ returned.ok) =>
        Cardinality(Squares(returned.origins)) = Len(returned.origins)

\* the target is the en-passant square and the resolver returned the two
\* pawns next to the double-stepped pawn
C37_Witness ==
    /\ Resolved
    /\ returned.ok
    /\ target = game_state.en_passant_intercept_pos
    /\ Len(returned.origins) >= 2
    /\ \A i \in 1..Len(returned.origins) :
           get_figure(game_state.board, returned.origins[i]).fig_type = Pawn

(***************************************************************************)
(* is_check on its own: called with the square of either king, on the      *)
(* positions the resolver is called on and on accepted configurations with *)
(* the kings next to each other and with pawns on their start rows.        *)
(***************************************************************************)
IsCheckConfigs ==
    {[turn_by |-> turn_by, en_passant |-> NoPos, figures |-> figures] :
        turn_by \in Colors,
        figures \in
            { \* Ke4 kd5
              <<At(King, White, 4, 3), At(King, Black, 3, 4)>>,
              \* Ke4 kd5 Rd1 bh1
              <<At(King, White, 4, 3), At(King, Black, 3, 4),
                At(Rook, White, 3, 0), At(Bishop, Black, 7, 0)>>,
              \* Kg6 ph7 kb3 Pa2
              <<At(King, White, 6, 5), At(Pawn, Black, 7, 6),
                At(King, Black, 1, 2), At(Pawn, White, 0, 1)>>,
              \* Kg6 ph7 kb3
              <<At(King, White, 6, 5), At(Pawn, Black, 7, 6), At(King, Black, 1, 2)>> }}

InitIsCheck ==
    /\ game_state \in ResolverStates
                        \cup {ManualResult(config).game_state : config \in IsCheckConfigs}
    /\ last_move = NoMoveData
    /\ panicked = FALSE
    /\ CodecIdle("is_check")
    /\ encoded_moves = <<>>

\* the call of is_check with the square of the king of one colour
IsCheck(king_color) ==
    /\ pc = "is_check"
    /\ target = NoPos
    /\ target' = (IF king_color = White THEN game_state.white_king_pos
                  ELSE game_state.black_king_pos)
    /\ ~is_check_panics(game_state.board, target')
    /\ returned' = is_check(game_state.board, target')
    /\ UNCHANGED <<game_state, last_move, panicked, pc, moves, legal, log, encoded_moves,
                   chars_left, chunk, prev_state, compressed, moves_played, decompressed,
                   free>>

NextIsCheck == \E king_color \in Colors : IsCheck(king_color)

SpecIsCheck == InitIsCheck /\ [][NextIsCheck]_vars

\* the squares from which a rook, bishop, queen, knight or pawn of the other
\* colour attacks the king on king_pos
Checkers(board, king_pos) ==
    {from \in Positions :
        /\ board.state[from].color = toggle(board.state[king_pos].color)
        /\ board.state[from].fig_type \in {Rook, Bishop, Queen, Knight, Pawn}
        /\ Attacks(board, from, king_pos)}

\* is_check was called
IsCheckCalled == pc = "is_check" /\ target # NoPos

\* C21: is_check is true exactly when a figure of the other colour attacks the
\* king's square: rook or queen first on a straight line, bishop or queen
\* first on a diagonal, knight a jump away, pawn on one of the two squares it
\* takes from. A figure in between blocks the line, and no figure of the
\* king's colour makes it true.
C21_IsCheck ==
    IsCheckCalled => (returned = (Checkers(game_state.board, target) # {}))

\* is_check found the king attacked along a line
C21_Witness ==
    /\ IsCheckCalled
    /\ returned
    /\ \E from \in Checkers(game_state.board, target) :
           /\ game_state.board.state[from].fig_type \in {Rook, Bishop, Queen}
           /\ Between(from, target) # {}

\* what the resolver returns for the square is_check was asked about, with
\* the other colour than the king's to move
AttackerOrigins ==
    get_positions_to_reach_target_from(
        target,
        [game_state EXCEPT
            !.turn_by = toggle(get_figure(game_state.board, target).color)]).origins

\* C33: on a board without pawns on rows 1 and 8, is_check of a king's square
\* is true exactly when the resolver, asked for that square with the other
\* colour to move, returns a square that holds another figure than a king.
C33_IsCheckAsResolver ==
    (IsCheckCalled /\ NoPawnOnEndRows(game_state.board)) =>
        (returned = (\E i \in 1..Len(AttackerOrigins) :
                        get_figure(game_state.board, AttackerOrigins[i]).fig_type # King))

\* is_check was true for a king next to the other king: the resolver
\* returned the other king's square and the square of another figure
C33_Witness ==
    /\ IsCheckCalled
    /\ NoPawnOnEndRows(game_state.board)
    /\ returned
    /\ \E i, j \in 1..Len(AttackerOrigins) :
           /\ get_figure(game_state.board, AttackerOrigins[i]).fig_type = King
           /\ get_figure(game_state.board, AttackerOrigins[j]).fig_type # King

(***************************************************************************)
(* is_origin_of_move_ambiguous on its own, and do_move with the same move: *)
(* called with a move of a figure of the side to move that follows the     *)
(* figure's movement.                                                      *)
(***************************************************************************)
\* positions of test_ambiguous_origin_status
AmbiguousConfigs ==
    { \* white: Kh1 Qb2 Qd2 Qf2 Qb4 Qf4 Qb6 Qd6 Qf6 kh7
      [turn_by |-> White, en_passant |-> NoPos,
       figures |-> <<At(King, White, 7, 0), At(Queen, White, 1, 1), At(Queen, White, 3, 1),
                     At(Queen, White, 5, 1), At(Queen, White, 1, 3), At(Queen, White, 5, 3),
                     At(Queen, White, 1, 5), At(Queen, White, 3, 5), At(Queen, White, 5, 5),
                     At(King, Black, 7, 6)>>],
      \* white: Ke1 Pa2 Pc2 pb3 ke8
      [turn_by |-> White, en_passant |-> NoPos,
       figures |-> <<At(King, White, 4, 0), At(Pawn, White, 0, 1), At(Pawn, White, 2, 1),
                     At(Pawn, Black, 1, 2), At(King, Black, 4, 7)>>],
      \* white: Ke1 Rb2 Rb7 Rc3 ke8
      [turn_by |-> White, en_passant |-> NoPos,
       figures |-> <<At(King, White, 4, 0), At(Rook, White, 1, 1), At(Rook, White, 1, 6),
                     At(Rook, White, 2, 2), At(King, Black, 4, 7)>>],
      \* white: Ke1 Bc2 Bc6 Bg2 ke8
      [turn_by |-> White, en_passant |-> NoPos,
       figures |-> <<At(King, White, 4, 0), At(Bishop, White, 2, 1), At(Bishop, White, 2, 5),
                     At(Bishop, White, 6, 1), At(King, Black, 4, 7)>>] }

AmbiguousStates ==
    ResolverStates \cup {ManualResult(config).game_state : config \in AmbiguousConfigs}

\* the moves of the figures of the side to move along their movement, onto a
\* square it does not stand on
RawMoves(state) ==
    {from_to \in {FromTo(from, to) : from \in Positions, to \in Positions} :
        /\ ~contains_color(state.board, from_to.to, state.turn_by)
        /\ RawReach(state, from_to.from, from_to.to)}

\* the Move of a FromTo: a pawn that reaches the last row becomes a queen
AsMove(state, from_to) ==
    [from_to |-> from_to,
     promotion_type |->
        IF /\ state.board.state[from_to.from].fig_type = Pawn
           /\ Row(from_to.to) = (IF state.turn_by = White THEN 7 ELSE 0)
        THEN Queen ELSE NoPromotion]

InitAmbiguous ==
    /\ game_state \in AmbiguousStates
    /\ last_move = NoMoveData
    /\ panicked = FALSE
    /\ CodecIdle("ambiguous")
    /\ encoded_moves = <<>>

\* the call of is_origin_of_move_ambiguous with a move, and where the move is
\* legal the call of do_move with it: the status, and the record of do_move
Ambiguous(from_to) ==
    /\ pc = "ambiguous"
    /\ target' = from_to
    /\ returned' =
          [status |-> is_origin_of_move_ambiguous(game_state.board, from_to),
           move_data |-> IF Legal(game_state, AsMove(game_state, from_to))
                         THEN do_move(game_state, AsMove(game_state, from_to)).move_data
                         ELSE NoMoveData]
    /\ UNCHANGED <<game_state, last_move, panicked, pc, moves, legal, log, encoded_moves,
                   chars_left, chunk, prev_state, compressed, moves_played, decompressed,
                   free>>

\* one call per position, as a second call returns what the first returned
NextAmbiguous ==
    /\ returned = NoReach
    /\ \E from_to \in RawMoves(game_state) : Ambiguous(from_to)

SpecAmbiguous == InitAmbiguous /\ [][NextAmbiguous]_vars

\* is_origin_of_move_ambiguous was called
AmbiguousCalled == pc = "ambiguous" /\ returned # NoReach

\* the figure that makes the move
Mover == game_state.board.state[target.from]

\* the squares of the figures of the mover's kind and colour whose movement
\* reaches the destination
SameKindOrigins ==
    {from \in Positions :
        /\ game_state.board.state[from] = Mover
        /\ Attacks(game_state.board, from, target.to)}

\* the status of a set of origins
Classify(origins) ==
    LET columns == {Col(pos) : pos \in origins}
        rows == {Row(pos) : pos \in origins}
    IN  IF Cardinality(origins) < 2 THEN Unambiguous
        ELSE IF Cardinality(rows) = 1 THEN ColumnIsAmbiguous
        ELSE IF Cardinality(columns) = 1 THEN RowIsAmbiguous
        ELSE ColumnAndRowAreAmbiguous

\* C22: for the move of a rook, bishop, queen or knight the status is taken
\* from the figures of the mover's kind and colour that reach the destination
\* on the board before the move, the mover among them: fewer than two give
\* Unambiguous, several columns in one row ColumnIsAmbiguous, several rows in
\* one column RowIsAmbiguous, several columns and rows
\* ColumnAndRowAreAmbiguous. No figure of another kind or colour is counted.
C22_AmbiguousOrigin ==
    (AmbiguousCalled /\ Mover.fig_type \in {Rook, Bishop, Queen, Knight}) =>
        /\ target.from \in SameKindOrigins
        /\ returned.status = Classify(SameKindOrigins)

\* the destination is reached by three figures of the mover's kind, in several
\* columns and rows, and a figure of another kind of the colour reaches it too
C22_Witness ==
    /\ AmbiguousCalled
    /\ Mover.fig_type \in {Rook, Bishop, Queen, Knight}
    /\ Cardinality(SameKindOrigins) > 2
    /\ returned.status = ColumnAndRowAreAmbiguous
    /\ \E from \in Positions :
           /\ game_state.board.state[from].color = Mover.color
           /\ game_state.board.state[from].fig_type \notin {Mover.fig_type, Pawn, King}
           /\ Attacks(game_state.board, from, target.to)

\* the square on the mover's rank, on the column mirrored across the
\* destination's; NoPos off the board
MirroredSquare ==
    LET column == Col(target.from) + 2 * (Col(target.to) - Col(target.from))
    IN  IF column \in 0..7 THEN new_unchecked(column, Row(target.from)) ELSE NoPos

\* the status of the move of a king or a pawn
KingOrPawnStatus ==
    IF /\ Mover.fig_type = Pawn
       /\ Col(target.from) # Col(target.to)
       /\ MirroredSquare # NoPos
       /\ game_state.board.state[MirroredSquare] = Mover
    THEN ColumnIsAmbiguous
    ELSE Unambiguous

\* C23: the move of a king and the straight step of a pawn are Unambiguous;
\* the diagonal move of a pawn is ColumnIsAmbiguous exactly when a pawn of its
\* colour stands on its rank on the column mirrored across the destination's
\* column. The record do_move returns carries this status, of the board before
\* the move.
C23_KingAndPawnOrigin ==
    (AmbiguousCalled /\ Mover.fig_type \in {King, Pawn}) =>
        /\ returned.status = KingOrPawnStatus
        /\ returned.move_data # NoMoveData
               => returned.move_data.origin_status = KingOrPawnStatus

\* a pawn took diagonally where a second pawn could have, and do_move returned
\* the record
C23_Witness ==
    /\ AmbiguousCalled
    /\ Mover.fig_type = Pawn
    /\ returned.status = ColumnIsAmbiguous
    /\ returned.move_data # NoMoveData

(***************************************************************************)
(* from_manual_config on its own: called with a colour, an en-passant      *)
(* square or none, and figures picked from a list.                         *)
(***************************************************************************)
\* the figures a configuration is picked from: kings, second kings, pawns on
\* the first and last row, two figures for one square, and the figures around
\* the en-passant squares c6 and d3
ConfigFigures ==
    <<At(King, White, 4, 0), At(King, White, 3, 0), At(King, Black, 4, 7),
      At(King, Black, 3, 7), At(Pawn, White, 0, 0), At(Pawn, Black, 7, 7),
      At(Rook, White, 0, 0), At(Pawn, Black, 2, 4), At(Knight, White, 2, 5),
      At(Rook, Black, 2, 6), At(Pawn, White, 3, 3), At(Bishop, Black, 3, 2),
      At(Queen, White, 3, 1), At(Rook, White, 7, 7)>>

\* the figures of the list at the indices picked, in the order of the list
RECURSIVE Picked(_, _)
Picked(indices, i) ==
    IF i > Len(ConfigFigures) THEN <<>>
    ELSE (IF i \in indices THEN <<ConfigFigures[i]>> ELSE <<>>) \o Picked(indices, i + 1)

\* the en-passant squares tried: none, c6, d3, c5
ConfigEnPassants ==
    {NoPos, new_unchecked(2, 5), new_unchecked(3, 2), new_unchecked(2, 4)}

Configs ==
    {[turn_by |-> color, en_passant |-> en_passant, figures |-> Picked(indices, 1)] :
        color \in Colors, en_passant \in ConfigEnPassants,
        indices \in SUBSET (1..Len(ConfigFigures))}

\* no GameState yet
NoGameState == [board |-> Board_empty, turn_by |-> "None"]

InitConfig ==
    /\ game_state = NoGameState
    /\ last_move = NoMoveData
    /\ panicked = FALSE
    /\ CodecIdle("config")
    /\ encoded_moves = <<>>

\* what the caller of from_manual_config has after the call
FromManualConfigReturn(config, result) ==
    /\ target' = config
    /\ returned' = [ok |-> result.ok, err |-> result.err]
    /\ game_state' = IF result.ok THEN result.game_state ELSE game_state

\* the call of from_manual_config
FromManualConfig(config) ==
    /\ pc = "config"
    /\ FromManualConfigReturn(config, ManualResult(config))
    /\ UNCHANGED <<last_move, panicked, pc, moves, legal, log, encoded_moves,
                   chars_left, chunk, prev_state, compressed, moves_played, decompressed,
                   free>>

\* one call per behaviour
NextConfig ==
    /\ returned = NoReach
    /\ \E config \in Configs : FromManualConfig(config)

SpecConfig == InitConfig /\ [][NextConfig]_vars

\* from_manual_config was called
Configured == pc = "config" /\ returned # NoReach

\* the figures of the configuration on a square
PlacedOn(pos) ==
    {i \in 1..Len(target.figures) : target.figures[i].pos = pos}

\* the squares of the kings of a colour in the configuration
KingsOf(color) ==
    {target.figures[i].pos :
        i \in {j \in 1..Len(target.figures) : target.figures[j].figure = Figure(King, color)}}

\* no king or several kings of a colour, a pawn on the first or last row, or
\* two figures on one square
BadPlacement ==
    \/ \E color \in Colors : Cardinality(KingsOf(color)) # 1
    \/ \E i \in 1..Len(target.figures) :
           /\ target.figures[i].figure.fig_type = Pawn
           /\ Row(target.figures[i].pos) \in {0, 7}
    \/ \E pos \in Positions : Cardinality(PlacedOn(pos)) > 1

\* C24: from_manual_config returns IllegalConfig and no GameState when a king
\* is missing or a colour has several, a pawn stands on the first or last row,
\* or two figures share a square; otherwise, no en-passant square given, it
\* returns the GameState with exactly the figures given on the board, the
\* colour given to move, and the kings' squares cached.
C24_ManualConfig ==
    Configured =>
        /\ BadPlacement =>
              /\ ~returned.ok
              /\ returned.err = "IllegalConfig"
              /\ game_state = NoGameState
        /\ (~BadPlacement /\ target.en_passant = NoPos) =>
              /\ returned.ok
              /\ game_state.turn_by = target.turn_by
              /\ \A pos \in Positions :
                     IF PlacedOn(pos) = {}
                     THEN game_state.board.state[pos] = NoFigure
                     ELSE \A i \in PlacedOn(pos) :
                              game_state.board.state[pos] = target.figures[i].figure
              /\ game_state.board.number_of_figures = Len(target.figures)
              /\ KingsOf(White) = {game_state.white_king_pos}
              /\ KingsOf(Black) = {game_state.black_king_pos}

\* a configuration of several figures was accepted
C24_Witness ==
    /\ Configured
    /\ ~BadPlacement
    /\ target.en_passant = NoPos
    /\ Len(target.figures) > 4
    /\ returned.ok

\* the figure of the configuration on a square, NoFigure where it has none
ConfigFigure(pos) ==
    IF PlacedOn(pos) = {} THEN NoFigure
    ELSE target.figures[CHOOSE i \in PlacedOn(pos) : TRUE].figure

\* the en-passant square fits a double step of a pawn of the side not to move
EnPassantConsistent ==
    LET toward_mover == IF target.turn_by = White THEN 0 - 1 ELSE 1
        column == Col(target.en_passant)
        row == Row(target.en_passant)
    IN  /\ row = (IF target.turn_by = White THEN 5 ELSE 2)
        /\ ConfigFigure(new_unchecked(column, row + toward_mover))
               = Figure(Pawn, toggle(target.turn_by))
        /\ ConfigFigure(new_unchecked(column, row - toward_mover)) = NoFigure
        /\ ConfigFigure(target.en_passant) = NoFigure

\* C25: from_manual_config accepts an en-passant square only when it lies on
\* the sixth row with white to move, the third with black to move, a pawn of
\* the side not to move stands beyond it where its double step ended, and the
\* square the pawn came from and the en-passant square itself are empty;
\* otherwise it returns IllegalConfig.
C25_EnPassantConfig ==
    (Configured /\ target.en_passant # NoPos /\ ~EnPassantConsistent) =>
        /\ ~returned.ok
        /\ returned.err = "IllegalConfig"

\* C36: in the GameState from_manual_config returns, each castling latch is
\* allowed exactly when the king of its colour stands on e1 / e8 and a rook of
\* its colour on the latch's corner; in GameState::classic all four are allowed.
C36_ConfigLatches ==
    /\ Latches(GameState_classic) = <<TRUE, TRUE, TRUE, TRUE>>
    /\ (Configured /\ returned.ok) =>
          \A i \in 1..4 :
              Latches(game_state)[i]
                  = (/\ get_figure(game_state.board, LatchKingHome[i])
                            = Figure(King, LatchColor[i])
                     /\ get_figure(game_state.board, LatchRookHome[i])
                            = Figure(Rook, LatchColor[i]))

\* white's queen-side latch is allowed; black's king-side latch is not, as
\* the rook on h8 next to the black king on e8 is white
C36_Witness ==
    /\ Configured
    /\ returned.ok
    /\ game_state.black_king_pos = BLACK_KING_STARTING_POS
    /\ get_figure(game_state.board, new_unchecked(7, 7)) = Figure(Rook, White)
    /\ Latches(game_state) = <<TRUE, FALSE, FALSE, FALSE>>

(***************************************************************************)
(* encode_base64, decode_base64 and assert_is_url_safe_base64 on their     *)
(* own: called with a square, a character, a text around a character.      *)
(***************************************************************************)
\* characters the alphabet does not have
OtherChars == {"+", "/", "=", " ", ".", "~", "*", "@", "%", "!", "$", "#"}

InitBase64 ==
    /\ game_state = GameState_classic
    /\ last_move = NoMoveData
    /\ panicked = FALSE
    /\ CodecIdle("base64")
    /\ encoded_moves = <<>>

\* the call of encode_base64, and of decode_base64 with its result
Encode(position) ==
    /\ pc = "base64"
    /\ target' = position
    /\ returned' = [call |-> "encode",
                    character |-> encode_base64(position),
                    decoded |-> decode_base64(encode_base64(position))]
    /\ UNCHANGED <<game_state, last_move, panicked, pc, moves, legal, log, encoded_moves,
                   chars_left, chunk, prev_state, compressed, moves_played, decompressed,
                   free>>

\* the call of decode_base64 with a character, of encode_base64 with its
\* result, and of assert_is_url_safe_base64 with texts that hold the character
Decode(character) ==
    /\ pc = "base64"
    /\ target' = character
    /\ returned' = [call |-> "decode",
                    decoded |-> decode_base64(character),
                    encoded |-> IF decode_base64(character).ok
                                THEN encode_base64(decode_base64(character).pos)
                                ELSE "",
                    asserted |-> assert_is_url_safe_base64(<<character>>),
                    asserted_within |-> assert_is_url_safe_base64(<<"A", character, "_">>)]
    /\ UNCHANGED <<game_state, last_move, panicked, pc, moves, legal, log, encoded_moves,
                   chars_left, chunk, prev_state, compressed, moves_played, decompressed,
                   free>>

\* one call per behaviour
NextBase64 ==
    /\ returned = NoReach
    /\ \/ \E position \in Positions : Encode(position)
       \/ \E character \in UrlSafeChars \cup OtherChars : Decode(character)

SpecBase64 == InitBase64 /\ [][NextBase64]_vars

\* the alphabet in the order of its values: A-Z, a-z, 0-9, minus, underline
Alphabet ==
    <<"A", "B", "C", "D", "E", "F", "G", "H", "I", "J", "K", "L", "M",
      "N", "O", "P", "Q", "R", "S", "T", "U", "V", "W", "X", "Y", "Z">>
    \o <<"a", "b", "c", "d", "e", "f", "g", "h", "i", "j", "k", "l", "m",
         "n", "o", "p", "q", "r", "s", "t", "u", "v", "w", "x", "y", "z">>
    \o DigitChars
    \o <<"-", "_">>

\* the values a character has in the alphabet
ValuesOf(character) == {v \in 0..(Len(Alphabet) - 1) : Alphabet[v + 1] = character}

\* C27: encode_base64 and decode_base64 are inverse bijections between the 64
\* squares and the 64 characters A-Z, a-z, 0-9, -, _ with the values 0..63 in
\* that order: decode_base64(encode_base64(p)) = p, no two squares share a
\* character, the square of value v has column v mod 8 and row v div 8; for a
\* character outside the alphabet decode_base64 and assert_is_url_safe_base64
\* return IllegalFormat.
C27_Base64 ==
    /\ Len(Alphabet) = 64
    /\ (pc = "base64" /\ returned # NoReach /\ returned.call = "encode") =>
          /\ ValuesOf(returned.character) = {target}
          /\ returned.decoded.ok
          /\ returned.decoded.pos = target
          /\ \A position \in Positions \ {target} :
                 encode_base64(position) # returned.character
    /\ (pc = "base64" /\ returned # NoReach /\ returned.call = "decode") =>
          IF ValuesOf(target) # {}
          THEN /\ returned.decoded.ok
               /\ \A v \in ValuesOf(target) :
                      /\ Col(returned.decoded.pos) = v % 8
                      /\ Row(returned.decoded.pos) = v \div 8
               /\ returned.encoded = target
               /\ returned.asserted
               /\ returned.asserted_within
          ELSE /\ ~returned.decoded.ok
               /\ returned.decoded.err = "IllegalFormat"
               /\ ~returned.asserted
               /\ ~returned.asserted_within

\* K, the value 10, was decoded: the square c2
C27_Witness ==
    /\ pc = "base64"
    /\ returned # NoReach
    /\ returned.call = "decode"
    /\ target = "K"
    /\ returned.decoded.pos = new_unchecked(2, 1)

(***************************************************************************)
(* contains_sufficient_material_to_continue on its own: called on boards   *)
(* of the two kings, knights and bishops of either colour, and at most one *)
(* pawn, rook or queen.                                                    *)
(***************************************************************************)
\* n times a figure
Times(n, figure) == [i \in 1..n |-> figure]

\* the figures on the squares from a2 on, row by row
OnSquares(figures) ==
    [i \in 1..Len(figures) |-> [figure |-> figures[i], pos |-> 7 + i]]

MaterialConfigs ==
    {[turn_by |-> White, en_passant |-> NoPos,
      figures |-> <<At(King, White, 4, 0), At(King, Black, 4, 7)>>
                  \o OnSquares(Times(white_knights, Figure(Knight, White))
                               \o Times(white_bishops, Figure(Bishop, White))
                               \o Times(black_knights, Figure(Knight, Black))
                               \o Times(black_bishops, Figure(Bishop, Black))
                               \o heavy)] :
        white_knights \in 0..3, white_bishops \in 0..2,
        black_knights \in 0..3, black_bishops \in 0..2,
        heavy \in {<<>>} \cup {<<Figure(fig_type, color)>> :
                                  fig_type \in {Pawn, Rook, Queen}, color \in Colors}}

InitMaterial ==
    /\ game_state \in {ManualResult(config).game_state : config \in MaterialConfigs}
    /\ last_move = NoMoveData
    /\ panicked = FALSE
    /\ CodecIdle("material")
    /\ encoded_moves = <<>>

\* the call of contains_sufficient_material_to_continue; it has no argument
\* but the board, and target tells that it was made
SufficientMaterial ==
    /\ pc = "material"
    /\ target = NoPos
    /\ target' = 0
    /\ returned' = contains_sufficient_material_to_continue(game_state.board)
    /\ UNCHANGED <<game_state, last_move, panicked, pc, moves, legal, log, encoded_moves,
                   chars_left, chunk, prev_state, compressed, moves_played, decompressed,
                   free>>

NextMaterial == SufficientMaterial

SpecMaterial == InitMaterial /\ [][NextMaterial]_vars

\* how many of a figure stand on the board
CountOf(board, figure) ==
    Cardinality({pos \in Positions : board.state[pos] = figure})

\* a pawn, rook or queen, or of one colour two bishops, a bishop and a knight,
\* or more than two knights
EnoughMaterial(board) ==
    \/ \E pos \in Positions : board.state[pos].fig_type \in {Pawn, Rook, Queen}
    \/ \E color \in Colors :
           \/ CountOf(board, Figure(Bishop, color)) >= 2
           \/ /\ CountOf(board, Figure(Bishop, color)) >= 1
              /\ CountOf(board, Figure(Knight, color)) >= 1
           \/ CountOf(board, Figure(Knight, color)) > 2

\* contains_sufficient_material_to_continue was called
MaterialCalled == pc = "material" /\ target # NoPos

\* C28: on a board with one king of each colour and the right
\* number_of_figures, contains_sufficient_material_to_continue is false only
\* without pawn, rook and queen and with neither colour holding two bishops, a
\* bishop and a knight, or more than two knights; it is true with more than 6
\* figures, where the count of bishops and knights gives true as well.
C28_SufficientMaterial ==
    (/\ MaterialCalled
     /\ \A color \in Colors : CountOf(game_state.board, Figure(King, color)) = 1
     /\ game_state.board.number_of_figures = Cardinality(NonEmpty(game_state.board))) =>
        /\ returned = EnoughMaterial(game_state.board)
        /\ game_state.board.number_of_figures > 6 =>
              (returned /\ material_counted(game_state.board))

\* the call returned false on a board of six figures
C28_Witness ==
    /\ MaterialCalled
    /\ game_state.board.number_of_figures = 6
    /\ ~returned

(***************************************************************************)
(* clear_field called on its own                                           *)
(***************************************************************************)
\* the boards clear_field is called on: the boards of the game states, and
\* the empty board
InitBoard ==
    /\ game_state \in ResolverStates
                        \cup {[GameState_classic EXCEPT !.board = Board_empty]}
    /\ last_move = NoMoveData
    /\ panicked = FALSE
    /\ CodecIdle("board")
    /\ encoded_moves = <<>>

\* one call of clear_field on the board: it has no check and no way to fail
\* (number_of_figures is an isize), so it returns
ClearField(pos) ==
    /\ pc = "board"
    /\ target = NoPos
    /\ target' = pos
    /\ game_state' = [game_state EXCEPT !.board = clear_field(@, pos)]
    /\ returned' = [NoReach EXCEPT !.ok = TRUE]
    /\ UNCHANGED <<last_move, panicked, pc, moves, legal, log, encoded_moves,
                   chars_left, chunk, prev_state, compressed, moves_played, decompressed,
                   free>>

NextBoard == \E pos \in Positions : ClearField(pos)

SpecBoard == InitBoard /\ [][NextBoard]_vars

\* C31: clear_field on an empty square does not return, and a board's
\* number_of_figures is at all times the number of its squares that hold a
\* figure.
C31_ClearEmptyFails ==
    /\ [](pc = "board" =>
            game_state.board.number_of_figures
                = Cardinality(NonEmpty(game_state.board)))
    /\ [][(/\ pc = "board"
           /\ target' # target
           /\ get_figure(game_state.board, target') = NoFigure) => panicked']_vars

(***************************************************************************)
(* One iteration of the loop of compress on its own: from a position in    *)
(* the middle of a game, with any move of a figure of the side to move.    *)
(***************************************************************************)
\* a position with one more knight or queen of the side to move on any square
WithOneMore(config) ==
    {[config EXCEPT !.figures = Append(config.figures,
                                       [figure |-> Figure(fig_type, config.turn_by),
                                        pos |-> pos])] :
        fig_type \in {Knight, Queen}, pos \in Positions}

IterationConfigs ==
    ManualConfigs \cup AmbiguousConfigs \cup ResolverConfigs
    \cup UNION {WithOneMore(config) : config \in ResolverConfigs}

InitIteration ==
    /\ game_state \in {GameState_classic}
                        \cup {ManualResult(config).game_state :
                                config \in {c \in IterationConfigs : ManualResult(c).ok}}
    /\ last_move = NoMoveData
    /\ panicked = FALSE
    /\ CodecIdle("iteration")
    /\ encoded_moves = <<>>

\* what the iteration leaves behind: the state of the replay, the text, and
\* for the properties the move and the record its do_move returned
CompressIterationApply(next_move, it) ==
    /\ pc' = "done"
    /\ moves' = IF it.outcome = "Err" THEN moves ELSE Append(moves, next_move)
    /\ prev_state' = game_state
    /\ game_state' = it.game_state
    /\ compressed' = IF it.outcome = "Continue" THEN Ok
                     ELSE IF it.outcome = "Err" THEN Err(it.err) ELSE Panic
    /\ encoded_moves' = IF it.outcome = "Continue" THEN it.chunk ELSE <<>>
    /\ last_move' = IF it.outcome = "Continue"
                    THEN do_move(game_state, next_move).move_data
                    ELSE NoMoveData
    /\ UNCHANGED <<panicked, legal, log, chars_left, chunk, moves_played, decompressed,
                   free>>
    /\ UNCHANGED resolver_vars

\* the body of the loop of compress with the next move of its argument
CompressIteration(next_move) ==
    /\ pc = "iteration"
    /\ CompressIterationApply(next_move, compress_iteration(game_state, next_move))

NextIteration ==
    /\ pc = "iteration"
    /\ \E from \in Positions :
           /\ contains_color(game_state.board, from, game_state.turn_by)
           /\ \E to \in Positions :
                  CompressIteration(AsMove(game_state, FromTo(from, to)))

SpecIteration == InitIteration /\ [][NextIteration]_vars

\* the iteration has pushed the codepoints of its move
Pushed == pc = "done" /\ compressed = Ok /\ Len(moves) = 1

\* the codepoints of the squares among those pushed: all but a promotion letter
SquareCodepoints ==
    IF moves[1].promotion_type # NoPromotion
    THEN SubSeq(encoded_moves, 1, Len(encoded_moves) - 1)
    ELSE encoded_moves

\* C34: where compress pushes the destination without the origin, the record
\* do_move returns for the move has the status Unambiguous; a move with
\* another status is pushed as the codepoint of its origin and the
\* codepoint of its destination.
C34_DroppedOriginUnambiguous ==
    Pushed =>
        /\ Len(SquareCodepoints) = 1 => last_move.origin_status = Unambiguous
        /\ last_move.origin_status # Unambiguous =>
              SquareCodepoints = <<encode_base64(moves[1].from_to.from),
                                   encode_base64(moves[1].from_to.to)>>

\* a move of status Unambiguous that was pushed with its origin, as the
\* resolver found a figure of another kind to reach the destination as well
C34_Witness ==
    /\ Pushed
    /\ Len(SquareCodepoints) = 2
    /\ last_move.origin_status = Unambiguous
    /\ last_move.move_type.tag # "Castling"

(***************************************************************************)
(* looks_like_castling on its own: called with any move on the classic     *)
(* start and on the accepted configurations.                               *)
(***************************************************************************)
InitCastling ==
    /\ game_state \in StartStates
    /\ last_move = NoMoveData
    /\ panicked = FALSE
    /\ CodecIdle("castling")
    /\ encoded_moves = <<>>

\* the call of looks_like_castling with a move
LooksLikeCastling(a_move) ==
    /\ pc = "castling"
    /\ target' = a_move
    /\ returned' = looks_like_castling(game_state, a_move)
    /\ UNCHANGED <<game_state, last_move, panicked, pc, moves, legal, log, encoded_moves,
                   chars_left, chunk, prev_state, compressed, moves_played, decompressed,
                   free>>

\* one call per position, as a second call returns what the first returned
NextCastling ==
    /\ returned = NoReach
    /\ \E from \in Positions, to \in Positions : LooksLikeCastling(FromTo(from, to))

SpecCastling == InitCastling /\ [][NextCastling]_vars

\* looks_like_castling was called
CastlingAsked == pc = "castling" /\ returned # NoReach

\* a king on the origin, a rook of the side to move on the destination
KingOntoOwnRook ==
    /\ get_figure(game_state.board, target.from).fig_type = King
    /\ get_figure(game_state.board, target.to) = Figure(Rook, game_state.turn_by)

\* a king on the ground row of the side to move goes more than one square
\* along that row, onto a square without a rook of the side to move
KingToCastlingTarget ==
    /\ get_figure(game_state.board, target.from).fig_type = King
    /\ get_figure(game_state.board, target.to) # Figure(Rook, game_state.turn_by)
    /\ Row(target.from) = get_ground_row(game_state.turn_by)
    /\ Row(target.to) = get_ground_row(game_state.turn_by)
    /\ Abs(Col(target.from) - Col(target.to)) > 1

\* C35: looks_like_castling returns Ok(true) exactly for a king onto a rook
\* of the side to move, the error IllegalFormat for a king that goes more than
\* one square along the ground row of the side to move onto another square,
\* and Ok(false) for every other move.
C35_LooksLikeCastling ==
    CastlingAsked =>
        returned = (IF KingOntoOwnRook
                    THEN [ok |-> TRUE, err |-> "None", value |-> TRUE]
                    ELSE IF KingToCastlingTarget
                    THEN [ok |-> FALSE, err |-> "IllegalFormat", value |-> FALSE]
                    ELSE [ok |-> TRUE, err |-> "None", value |-> FALSE])

(***************************************************************************)
(* Properties of compress, and of decompress on the text of compress       *)
(***************************************************************************)
\* the Move a MoveData was made from: given origin, destination, promotion kind
GivenMove(move_data) ==
    [from_to |-> move_data.given_from_to,
     promotion_type |-> IF move_data.move_type.tag = "PawnPromotion"
                        THEN move_data.move_type.promoted_to ELSE NoPromotion]

\* compress or decompress returned an error or did not return
Failed(result) == result.kind \in {"Err", "Panic"}

\* C1: for a sequence of legal moves from the classic start compress succeeds,
\* and decompress of its text returns one record per move, in order, with the
\* given origin, destination and promotion kind of the move.
C1_RoundTrip ==
    legal =>
        /\ ~Failed(compressed)
        /\ ~Failed(decompressed)
        /\ Len(moves_played) <= Len(moves)
        /\ \A i \in 1..Len(moves_played) : GivenMove(moves_played[i]) = moves[i]
        /\ decompressed = Ok => Len(moves_played) = Len(moves)

\* the game with the promotion and one more legal move has gone round
C1_Witness ==
    /\ legal
    /\ decompressed = Ok
    /\ free = 1
    /\ Len(moves_played) = Len(PawnGame) + 1

PromotionLetter(promotion_type) ==
    CASE promotion_type = Queen -> "Q"
      [] promotion_type = Rook -> "R"
      [] promotion_type = Knight -> "N"
      [] promotion_type = Bishop -> "B"

\* what C3 says compress pushes for move i
C3_Expected(i) ==
    LET from == moves[i].from_to.from
        to == moves[i].from_to.to
        positions == IF log[i].candidates = 1
                     THEN <<encode_base64(to)>>
                     ELSE <<encode_base64(from), encode_base64(to)>>
    IN  IF moves[i].promotion_type # NoPromotion
        THEN Append(positions, PromotionLetter(moves[i].promotion_type))
        ELSE positions

\* C3: for a move that is no castling and whose origin is among the
\* resolver's candidates for its destination, compress pushes the destination
\* codepoint alone where there is one candidate, origin and destination where
\* there are more, and then the letter of the promotion kind if the move has
\* one; c2c3 from the start gives "KS", c2c4 gives "a".
C3_Codepoints ==
    /\ \A i \in 1..Len(moves) :
           (~log[i].castling /\ log[i].origin_found)
               => log[i].chunk = C3_Expected(i)
    /\ moves = <<Mv(2, 1, 2, 2)>> => encoded_moves = <<"K", "S">>
    /\ moves = <<Mv(2, 1, 2, 3)>> => encoded_moves = <<"a">>

\* a move with a promotion kind and more than one candidate has got its
\* three characters, and compress has returned
C3_Witness ==
    /\ log # <<>>
    /\ Len(moves) = Len(log)
    /\ ~log[Len(log)].castling
    /\ moves[Len(moves)].promotion_type # NoPromotion
    /\ log[Len(log)].candidates > 1
    /\ Len(log[Len(log)].chunk) = 3
    /\ compressed = Ok

\* C4: when a move that is no castling has an origin that is not among the
\* resolver's candidates for its destination, compress returns an IllegalMove
\* error (and so no text) at that move and has not applied it.
C4_IllegalMove ==
    \A i \in 1..Len(log) :
        (~log[i].castling /\ ~log[i].origin_found)
            => /\ i = Len(log)
               /\ compressed = Err("IllegalMove")
               /\ game_state = prev_state

(***************************************************************************)
(* Properties of decompress on any text.  They speak of the latest         *)
(* iteration: it started from prev_state and read chunk.                   *)
(***************************************************************************)
\* an iteration of the loop has read characters
HasRead == pc \in {"decompress", "done"} /\ chunk # <<>>

\* the square the first character names
FirstPos == decode_base64(chunk[1]).pos

\* the first character names a square of the side to move: origin, then destination
TwoCodepoints == contains_color(prev_state.board, FirstPos, prev_state.turn_by)

\* how many characters name the squares of the move
SquareChars == IF TwoCodepoints THEN 2 ELSE 1

\* the resolver's answer for the destination the text names
Candidates ==
    get_positions_to_reach_target_from(
        IF TwoCodepoints THEN decode_base64(chunk[2]).pos ELSE FirstPos, prev_state)

\* the text names a move: both squares are there, or the one square has one candidate
MoveRead ==
    /\ HasRead
    /\ Len(chunk) >= SquareChars
    /\ ~TwoCodepoints => (Candidates.ok /\ Len(Candidates.origins) = 1)

\* the move the text names
ReadFromTo ==
    IF TwoCodepoints THEN FromTo(FirstPos, decode_base64(chunk[2]).pos)
    ELSE FromTo(Candidates.origins[1], FirstPos)

\* the move the text names is a pawn's, to rank 1 or 8
PawnReachesLastRank ==
    /\ get_figure(prev_state.board, ReadFromTo.from).fig_type = Pawn
    /\ Row(ReadFromTo.to) \in {0, 7}

\* the iteration applied its move
Applied ==
    /\ decompressed = NoResult
    /\ moves_played # <<>>
    /\ moves_played[Len(moves_played)].given_from_to = ReadFromTo

\* C5: when decompress reads origin and destination, the resolver does not
\* give the origin for the destination, and the move is no king-onto-own-rook
\* castling, decompress returns an IllegalMove error and does not apply the move.
C5_UnreachableDestination ==
    (/\ HasRead
     /\ TwoCodepoints
     /\ Len(chunk) >= 2
     /\ ~OwnCastling(prev_state, ReadFromTo)
     /\ \/ ~Candidates.ok
        \/ ~Contains(Candidates.origins, FirstPos))
        => /\ decompressed = Err("IllegalMove")
           /\ game_state = prev_state

\* C6: when the first character names a square the side to move does not
\* hold, it is the destination: with one candidate the candidate is the
\* origin of the move; with none or several decompress returns an IllegalMove
\* error, having read that one character and applied nothing.
C6_ImpliedOrigin ==
    (HasRead /\ ~TwoCodepoints)
        => /\ Candidates.ok
           /\ Len(Candidates.origins) = 1
                  => /\ decompressed = NoResult => Applied
                     /\ ReadFromTo = FromTo(Candidates.origins[1], FirstPos)
           /\ Len(Candidates.origins) # 1
                  => /\ decompressed = Err("IllegalMove")
                     /\ Len(chunk) = 1
                     /\ game_state = prev_state

\* the letters of the promotion kinds
PromotionLetters == {"Q", "R", "N", "B"}

\* C7: decompress returns an IllegalFormat error when the text ends after an
\* origin codepoint, when it ends after a pawn move to rank 1 or 8, and when
\* the character after such a move is none of Q, R, N, B; where the text does
\* not end, the iteration reads the character after the squares exactly for a
\* pawn move to rank 1 or 8, and the move gets the kind the letter names.
C7_IllegalFormat ==
    /\ (HasRead /\ TwoCodepoints /\ Len(chunk) = 1)
           => decompressed = Err("IllegalFormat")
    /\ (MoveRead /\ PawnReachesLastRank /\ Len(chunk) = SquareChars)
           => decompressed = Err("IllegalFormat")
    /\ (MoveRead /\ PawnReachesLastRank /\ Len(chunk) > SquareChars)
           => /\ Len(chunk) = SquareChars + 1
              /\ chunk[Len(chunk)] \notin PromotionLetters
                     => decompressed = Err("IllegalFormat")
              /\ chunk[Len(chunk)] \in PromotionLetters
                     => /\ decompressed.kind # "Err"
                        /\ decompressed = NoResult
                               => /\ Applied
                                  /\ PromotionLetter(
                                         GivenMove(moves_played[Len(moves_played)])
                                             .promotion_type) = chunk[Len(chunk)]
    /\ (MoveRead /\ ~PawnReachesLastRank)
           => /\ Len(chunk) = SquareChars
              /\ decompressed.kind # "Err"
              /\ decompressed = NoResult
                     => /\ Applied
                        /\ GivenMove(moves_played[Len(moves_played)]).promotion_type
                               = NoPromotion

\* the text of the pawn game, its last letter replaced by one that names no
\* promotion kind, has been refused
C7_Witness ==
    /\ Len(encoded_moves) = Len(PawnGameText)
    /\ IsPrefix(SubSeq(encoded_moves, 1, Len(encoded_moves) - 1), PawnGameText)
    /\ encoded_moves[Len(encoded_moves)] \notin PromotionLetters
    /\ MoveRead
    /\ PawnReachesLastRank
    /\ decompressed = Err("IllegalFormat")

\* C29: decompress of a text of the alphabet's characters returns its move
\* records or an error: it never ends in a failed assertion or unwrap of
\* do_move, is_check or clear_field.
C29_NoContractFailure ==
    decompressed # Panic

\* C30: the current round is 1 in a start state, grows by one with each move
\* of black and stays as it is with each move of white, whichever colour
\* the start state gives the first move to.
C30_RoundGrowsAfterBlack ==
    /\ [](last_move = NoMoveData
            => current_round(game_state.moves_played_data) = 1)
    /\ [][game_state' # game_state =>
             current_round(game_state'.moves_played_data)
                 = current_round(game_state.moves_played_data)
                     + (IF game_state.turn_by = Black THEN 1 ELSE 0)]_vars

=============================================================================
